---- MODULE Spec2Model ----
(***************************************************************************)
(* Fundit indexer: the crowdfunding contract's event log, the relational   *)
(* mirror, the block-range scheduler (worker.js processNetworks) and the   *)
(* event indexer (blockchain.js indexNetwork and its three categories).    *)
(* Amounts are kept in raw token units (10^-8), the unit of DECIMAL(24,8). *)
(***************************************************************************)
EXTENDS Integers, Sequences, FiniteSets, TLC

\* ---- program constants ----
CATCHUP_BATCH_SIZE == 5000
REALTIME_BATCH_SIZE == 100
RECENT_HISTORY_BLOCKS == 100000
MAX_ACCEPTABLE_GAP == 500000
REALTIME_THRESHOLD == 200
MAX_BLOCK_RANGE == 10000
STABLE_TOKEN_DECIMALS == 8
BATCH_SIZE == 50

\* ---- bounds of the model ----
MaxTx == 2
MaxPasses == 2
MaxCampaigns == 1
MaxRequests == 1
MaxDirectCalls == 1
MaxExtra == 1
MaxErrors == 1
MaxRows == 2
MaxSent == 1
MaxBalance == 210
MaxChecks == 16
MaxWalletCalls == 2
MaxWalletRequests == 3
MaxOverlaps == 1

VARIABLES
  head,                \* chain: number of the latest block
  log,                 \* chain: the contract's events, in block order
  campaignCount,       \* chain: Fundit.campaignCount
  campaigns,           \* chain: Fundit.campaigns mapping (current structs)
  withdrawalRequestCount, \* chain: Fundit.withdrawalRequestCount
  withdrawalRequests,  \* chain: Fundit.withdrawalRequests[id].processed
  dbCampaigns,         \* mirror: campaigns table, id -> row
  dbDonations,         \* mirror: donations table (append-only rows)
  dbTransactions,      \* mirror: number of rows of the transactions table
  dbWithdrawals,       \* mirror: withdrawals table, id -> status
  indexer_state,       \* mirror: last_indexed_block of the main chain, or NoRow
  pc,                  \* where the indexer run stands
  currentBlock,        \* processNetworks: head as read by this pass
  lastIndexed,         \* processNetworks: lastIndexedBlocks[network] as read
  fromBlock,           \* range handed to indexNetwork
  toBlock,
  jumpedAhead,         \* processNetworks: jumpedAhead of this pass
  batchSize,           \* processNetworks: batchSize of this pass (0: not computed)
  chunks,              \* indexNetwork: chunks still to process, head is current
  lastProcessedBlock,  \* indexNetwork: lastProcessedBlock
  mined,               \* history: transactions mined since the initial state
  passes,              \* history: scheduler passes started
  directCalls,         \* history: direct indexNetwork calls started
  handed,              \* history: ranges handed to indexNetworkChunk in this call
  committed,           \* history: categories committed by the current call, in order
  cursorWrites,        \* history: cursor writes made by the current indexNetwork call
  cursorAtCall,        \* history: indexer_state when the current call started
  exactlyOnce,         \* history: every block up to the cursor was indexed once, no failure
  lastLifecycle,       \* history: the last committed campaign-lifecycle run
  lifecycleReplayed,   \* history: the last lifecycle run repeated its predecessor
  outcome,             \* history: how the last indexNetwork call ended
  reconciliation_log,  \* mirror: reconciliation_log table (append-only rows)
  reconPc,             \* reconcileCampaigns: where the pass stands
  reconRows,           \* reconcileCampaigns: dbCampaigns.rows, the SELECT of the pass
  campaignBatches,     \* reconcileCampaigns: batches still to process, head is current
  updatedCount,        \* reconcileCampaigns: updatedCount
  matchCount,          \* reconcileCampaigns: matchCount
  errorCount,          \* reconcileCampaigns: errorCount
  reconResult,         \* reconcileCampaigns: the counts the pass returned
  reconFailed,         \* history: campaigns whose task threw in this pass
  reconTasks,          \* reconcileCampaigns: the await each task of the batch stands at
  direct_donations,    \* mirror: direct_donations table, id -> row
  walletBalance,       \* chain: native balance of each campaign wallet, in 0.01 MATIC
  walletNonce,         \* chain: number of mined transactions of each campaign wallet
  walletShort,         \* chain: wei by which each balance falls short of walletBalance
  sentTxs,             \* chain: transactions the relay sent, hash -> transaction
  feeData,             \* chain: provider.getFeeData() as it answers now
  relayPc,             \* relay: where the tick stands
  relayWallet,         \* relay: the wallet of wallets.rows being processed
  relayRow,            \* relay: donationId handed to sendDonationTransaction
  foundPending,        \* history: the pending row processWallet found for relayWallet:
                       \*   "none", "hashed" or "unhashed"
  readBalance,         \* history: the balance of relayWallet was read in this tick
  createdRow,          \* history: a row was created for relayWallet in this tick
  lastPoll,            \* history: the last poll of a pending row with a hash
  lastSubmit,          \* history: the last run of sendDonationTransaction
  prior,               \* history: rows closed and transactions sent before the relay started
  retryPc,             \* withRetry: "idle", "calling", "waiting", "returned" or "threw"
  attempt,             \* withRetry: the loop's attempt
  lastError,           \* withRetry: the error caught last
  retryOutcome,        \* withRetry: the value returned or the error thrown to the caller
  retryLog,            \* history: what each call of fn did
  waits,               \* history: delays (of RETRY_DELAY_MS each) waited through
  waitedAfter,         \* history: the attempts a delay followed
  missingConfig,       \* environment: networks without an RPC URL or a contract address
  providers,           \* blockchain.js: networks that have a provider and a contract handle
  passState,           \* processNetworks: "idle", "loop", "indexing", "resolved" or "rejected"
  netLoop,             \* processNetworks: networks the for loop has still to take
  networksProcessed,   \* processNetworks: networksProcessed
  cursorRead,          \* history: this pass ran the SELECT on indexer_state
  passTrace,           \* history: what the loop did for each network it took
  handedTo,            \* history: networks handed to indexNetwork
  touched,             \* history: networks for which a cursor or mirror row was written
  walletArgs,          \* the campaign ids and the master seed generateCampaignWallet is called with
  walletResults,       \* what the calls of generateCampaignWallet returned or threw, in order
  campaign_wallets,    \* table campaign_wallets: rows [campaign_id, wallet_address, private_key]
  requests,            \* GET /api/campaigns/:id/direct-wallet: each request's position and response
  masterSeed,          \* process.env.WALLET_MASTER_SEED
  passNote,            \* history: the pass before this one, when it failed after the donations
  otherRun,            \* a second run of processNetworks: its position and its locals
  otherTick            \* a second tick of checkWalletsAndProcess: its position and its locals

chainVars == <<head, log, campaignCount, campaigns, withdrawalRequestCount, withdrawalRequests>>
dbVars == <<dbCampaigns, dbDonations, dbTransactions, dbWithdrawals>>
passVars == <<currentBlock, lastIndexed, jumpedAhead, batchSize>>
callVars == <<fromBlock, toBlock, chunks, lastProcessedBlock>>
histVars == <<mined, passes, directCalls, handed, committed, cursorWrites, cursorAtCall,
              exactlyOnce, lastLifecycle, lifecycleReplayed, outcome>>
reconVars == <<reconciliation_log, reconPc, reconRows, campaignBatches, updatedCount,
               matchCount, errorCount, reconResult, reconFailed, reconTasks>>
relayState == <<direct_donations, sentTxs, relayPc, relayWallet, relayRow>>
relayChain == <<walletBalance, walletNonce, walletShort, feeData>>
relayHist == <<foundPending, readBalance, createdRow,
               lastPoll, lastSubmit>>
relayVars == <<relayState, relayChain, relayHist, prior>>
retryVars == <<retryPc, attempt, lastError, retryOutcome, retryLog, waits, waitedAfter>>
loopVars == <<missingConfig, providers, passState, netLoop, networksProcessed, cursorRead,
              passTrace, handedTo, touched>>
walletVars == <<walletArgs, walletResults>>
provisionVars == <<campaign_wallets, requests, masterSeed>>
overlapVars == <<passNote, otherRun, otherTick>>
extraVars == <<walletVars, provisionVars, overlapVars>>
auxVars == <<reconVars, relayVars, retryVars, loopVars, extraVars>>
nonRelayVars == <<reconVars, retryVars, loopVars, extraVars>>
nonReconVars == <<relayVars, retryVars, loopVars, extraVars>>
nonRetryVars == <<reconVars, relayVars, loopVars, extraVars>>
nonLoopVars == <<reconVars, relayVars, retryVars, extraVars>>
mirrorVars == <<chainVars, dbVars, indexer_state, pc, passVars, callVars, histVars>>
vars == <<mirrorVars, auxVars>>

NoRow == -1
Cids == 1..MaxCampaigns
Rids == 1..MaxRequests
Creator == "creator"
Edits == {<<"n2", 0>>}
Amounts == {3000000}

Max(a, b) == IF a >= b THEN a ELSE b
Min(a, b) == IF a <= b THEN a ELSE b

\* ---- the contract ----
EmptyCampaign ==
  [name |-> "", target |-> 0, description |-> "", socialLink |-> "", imageId |-> 0,
   creator |-> "", ended |-> FALSE, totalStable |-> 0]

Event(kind, cid, value, rid) ==
  [block |-> head + 1, kind |-> kind, campaignId |-> cid, value |-> value, requestId |-> rid]

\* A transaction is mined in a new block. The indexer reads the chain only
\* when a pass starts (head) and in the campaign category (events of a range
\* below that head, current structs), so a block mined during the other steps
\* is observed exactly as one mined right after them.
Mine(ev) ==
  /\ mined < MaxTx
  /\ mined' = mined + 1
  /\ pc \in {"idle", "campaigns"}
  /\ head' = head + 1
  /\ log' = Append(log, ev)

createCampaign(name, target) ==
  /\ campaignCount < MaxCampaigns
  /\ campaignCount' = campaignCount + 1
  /\ campaigns' = [campaigns EXCEPT ![campaignCount + 1] =
       [name |-> name, target |-> target, description |-> "d1", socialLink |-> "s1",
        imageId |-> 1, creator |-> Creator, ended |-> FALSE, totalStable |-> 0]]
  /\ Mine(Event("CampaignCreated", campaignCount + 1, 0, 0))
  /\ UNCHANGED <<withdrawalRequestCount, withdrawalRequests>>

editCampaign(campaignId, name, target) ==
  /\ campaigns[campaignId].creator = Creator
  /\ ~campaigns[campaignId].ended
  /\ campaigns' = [campaigns EXCEPT ![campaignId] =
       [@ EXCEPT !.name = IF name # "" THEN name ELSE @,
                 !.target = IF target > 0 THEN target ELSE @]]
  /\ Mine(Event("CampaignEdited", campaignId, 0, 0))
  /\ UNCHANGED <<campaignCount, withdrawalRequestCount, withdrawalRequests>>

endCampaign(campaignId) ==
  /\ campaigns[campaignId].creator = Creator
  /\ ~campaigns[campaignId].ended
  /\ campaigns' = [campaigns EXCEPT ![campaignId].ended = TRUE]
  /\ Mine(Event("CampaignEnded", campaignId, campaigns[campaignId].totalStable, 0))
  /\ UNCHANGED <<campaignCount, withdrawalRequestCount, withdrawalRequests>>

donate(campaignId, netUsd) ==
  /\ ~campaigns[campaignId].ended
  /\ campaigns' = [campaigns EXCEPT ![campaignId].totalStable = @ + netUsd]
  /\ Mine(Event("DonationMade", campaignId, netUsd, 0))
  /\ UNCHANGED <<campaignCount, withdrawalRequestCount, withdrawalRequests>>

requestWithdrawal ==
  /\ withdrawalRequestCount < MaxRequests
  /\ withdrawalRequestCount' = withdrawalRequestCount + 1
  /\ withdrawalRequests' = [withdrawalRequests EXCEPT ![withdrawalRequestCount + 1] = FALSE]
  /\ Mine(Event("WithdrawalRequested", 0, 0, withdrawalRequestCount + 1))
  /\ UNCHANGED <<campaignCount, campaigns>>

processWithdrawalRequest(requestId) ==
  /\ ~withdrawalRequests[requestId]
  /\ withdrawalRequests' = [withdrawalRequests EXCEPT ![requestId] = TRUE]
  /\ Mine(Event("WithdrawalProcessed", 0, 0, requestId))
  /\ UNCHANGED <<campaignCount, campaigns, withdrawalRequestCount>>

\* ---- the mirror ----
Unit == 10 ^ STABLE_TOKEN_DECIMALS

\* ethers.formatUnits(value, 8): the decimal string, as <<integer part, 8 fraction digits>>
formatUnits(value) == <<value \div Unit, value % Unit>>

\* a DECIMAL(24, 8) column reading that string
Decimal(str) == str[1] * Unit + str[2]

InRange(e, from, to) == e.block >= from /\ e.block <= to

\* contract.queryFilter(filter, fromBlock, toBlock)
queryFilter(kind, from, to) ==
  SelectSeq(log, LAMBDA e : e.kind = kind /\ InRange(e, from, to))

Ids(events) == {events[i].campaignId : i \in DOMAIN events}

\* the row built from the pre-fetched struct of a CampaignCreated event
createdValues(campaign) ==
  [name |-> campaign.name, description |-> campaign.description,
   target_amount |-> Decimal(formatUnits(campaign.target)),
   social_link |-> campaign.socialLink, image_id |-> campaign.imageId,
   creator |-> campaign.creator, ended |-> campaign.ended,
   amount_raised |-> Decimal(formatUnits(campaign.totalStable))]

\* INSERT INTO campaigns ... ON CONFLICT (id) DO NOTHING
InsertCreated(rows, createdEvents) ==
  [id \in DOMAIN rows \cup Ids(createdEvents) |->
     IF id \in DOMAIN rows THEN rows[id] ELSE createdValues(campaigns[id])]

\* UPDATE campaigns SET name, description, target_amount, social_link, image_id
UpdateEdited(rows, editedEvents) ==
  [id \in DOMAIN rows |->
     IF id \in Ids(editedEvents)
     THEN [rows[id] EXCEPT !.name = campaigns[id].name,
                           !.description = campaigns[id].description,
                           !.target_amount = Decimal(formatUnits(campaigns[id].target)),
                           !.social_link = campaigns[id].socialLink,
                           !.image_id = campaigns[id].imageId]
     ELSE rows[id]]

EndedUpdateAdds(row, finalAmount) ==
  [row EXCEPT !.ended = TRUE, !.amount_raised = @ + Decimal(finalAmount)]

\* one UPDATE campaigns SET ended = TRUE, amount_raised = $1
EndedUpdate(row, finalAmount) ==
  [row EXCEPT !.ended = TRUE, !.amount_raised = Decimal(finalAmount)]

RECURSIVE UpdateEnded(_, _)
UpdateEnded(rows, endedEvents) ==
  IF endedEvents = <<>> THEN rows
  ELSE LET e == Head(endedEvents)
           next == IF e.campaignId \in DOMAIN rows
                   THEN [rows EXCEPT ![e.campaignId] = EndedUpdate(@, formatUnits(e.value))]
                   ELSE rows
       IN UpdateEnded(next, Tail(endedEvents))

\* the transactions row of a CampaignEnded event takes user_address from
\* (SELECT creator FROM campaigns WHERE id = ..), and user_address is NOT NULL
EndedTxViolates(rows, endedEvents) ==
  \E i \in DOMAIN endedEvents : endedEvents[i].campaignId \notin DOMAIN rows

\* donations.campaign_id REFERENCES campaigns(id)
DonationViolates(rows, donationEvents) ==
  \E i \in DOMAIN donationEvents : donationEvents[i].campaignId \notin DOMAIN rows

DonationUpdateKeeps(row, amount) == row

DonationUpdateSets(row, amount) ==
  [row EXCEPT !.amount_raised = Decimal(amount)]

\* one UPDATE campaigns SET amount_raised = amount_raised + $1
DonationUpdate(row, amount) ==
  [row EXCEPT !.amount_raised = @ + Decimal(amount)]

RECURSIVE UpdateAmounts(_, _)
UpdateAmounts(rows, donationEvents) ==
  IF donationEvents = <<>> THEN rows
  ELSE LET e == Head(donationEvents)
           next == IF e.campaignId \in DOMAIN rows
                   THEN [rows EXCEPT ![e.campaignId] = DonationUpdate(@, formatUnits(e.value))]
                   ELSE rows
       IN UpdateAmounts(next, Tail(donationEvents))

RECURSIVE InsertDonations(_, _)
InsertDonations(rows, donationEvents) ==
  IF donationEvents = <<>> THEN rows
  ELSE LET e == Head(donationEvents)
       IN InsertDonations(
            Append(rows, [campaign_id |-> e.campaignId,
                          amount |-> Decimal(formatUnits(e.value)),
                          tx_hash |-> e.block]),
            Tail(donationEvents))

\* INSERT INTO withdrawals ... 'Requested' ... ON CONFLICT (id) DO NOTHING
InsertRequested(rows, requestEvents) ==
  [id \in DOMAIN rows \cup {requestEvents[i].requestId : i \in DOMAIN requestEvents} |->
     IF id \in DOMAIN rows THEN rows[id] ELSE "Requested"]

UpdateProcessedToggles(rows, processedEvents) ==
  [id \in DOMAIN rows |->
     IF \E i \in DOMAIN processedEvents : processedEvents[i].requestId = id
     THEN (IF rows[id] = "Requested" THEN "Processed" ELSE "Requested") ELSE rows[id]]

\* for each WithdrawalProcessed event whose row exists: status = 'Processed'
UpdateProcessed(rows, processedEvents) ==
  [id \in DOMAIN rows |->
     IF \E i \in DOMAIN processedEvents : processedEvents[i].requestId = id
     THEN "Processed" ELSE rows[id]]

ProcessedFound(rows, processedEvents) ==
  Cardinality({i \in DOMAIN processedEvents : processedEvents[i].requestId \in DOMAIN rows})

\* ---- indexNetwork ----
RECURSIVE ChunkLoop(_, _)
ChunkLoop(i, to) ==
  IF i < to
  THEN <<<<i, Min(i + MAX_BLOCK_RANGE - 1, to)>>>> \o ChunkLoop(i + MAX_BLOCK_RANGE, to)
  ELSE <<>>

IsLargeRange(from, to) == to - from > MAX_BLOCK_RANGE

\* the ranges indexNetwork hands to indexNetworkChunk, in order
Chunks(from, to) ==
  IF IsLargeRange(from, to) THEN ChunkLoop(from, to) ELSE <<<<from, to>>>>

\* entry of indexNetwork(network, from, to), up to its first chunk
indexNetwork(from, to, cursorNow) ==
  /\ fromBlock' = from
  /\ toBlock' = to
  /\ chunks' = Chunks(from, to)
  /\ lastProcessedBlock' = from
  /\ pc' = "campaigns"
  /\ handed' = <<Chunks(from, to)[1]>>
  /\ committed' = <<>>
  /\ cursorWrites' = 0
  /\ cursorAtCall' = cursorNow
  /\ outcome' = "running"

Categories == <<"campaigns", "donations", "withdrawals">>

\* where indexNetworkChunk goes once a category has committed
AfterCategory(category) ==
  CASE category = "campaigns" -> "donations"
    [] category = "donations" -> "withdrawals"

\* db.query('BEGIN') ... db.query('ROLLBACK'): the statements of the category
\* that threw are undone, and nothing else is
RolledBack == UNCHANGED dbVars

AfterThrowWritesCursor(category) == "writeCursor"

AfterThrowContinues(category) ==
  IF category = "withdrawals" THEN "idle" ELSE AfterCategory(category)

\* where the run goes when a category throws: up to processNetworks' catch
AfterThrow(category) == "idle"

indexCampaignEvents ==
  /\ pc = "campaigns"
  /\ LET from == chunks[1][1]
         to == chunks[1][2]
         createdEvents == queryFilter("CampaignCreated", from, to)
         editedEvents == queryFilter("CampaignEdited", from, to)
         endedEvents == queryFilter("CampaignEnded", from, to)
         rows == UpdateEnded(UpdateEdited(InsertCreated(dbCampaigns, createdEvents),
                                          editedEvents), endedEvents)
     IN /\ ~EndedTxViolates(rows, endedEvents)
        /\ dbCampaigns' = rows
        /\ dbTransactions' = dbTransactions + Len(createdEvents) + Len(editedEvents)
                               + Len(endedEvents)
        /\ lastLifecycle' = [range |-> <<from, to>>, logLen |-> Len(log), rows |-> rows]
        /\ lifecycleReplayed' = (lastLifecycle.range = <<from, to>>
                                 /\ lastLifecycle.logLen = Len(log))
  /\ pc' = AfterCategory("campaigns")
  /\ committed' = Append(committed, "campaigns")
  /\ UNCHANGED <<chainVars, dbDonations, dbWithdrawals, indexer_state, passVars, callVars,
                 mined, passes, directCalls, handed, cursorWrites, cursorAtCall, exactlyOnce,
                 outcome>>
  /\ UNCHANGED auxVars

indexDonationEvents ==
  /\ pc = "donations"
  /\ LET donationEvents == queryFilter("DonationMade", chunks[1][1], chunks[1][2])
     IN /\ ~DonationViolates(dbCampaigns, donationEvents)
        /\ dbDonations' = InsertDonations(dbDonations, donationEvents)
        /\ dbCampaigns' = UpdateAmounts(dbCampaigns, donationEvents)
        /\ dbTransactions' = dbTransactions + Len(donationEvents)
  /\ pc' = AfterCategory("donations")
  /\ committed' = Append(committed, "donations")
  /\ UNCHANGED <<chainVars, dbWithdrawals, indexer_state, passVars, callVars,
                 mined, passes, directCalls, handed, cursorWrites, cursorAtCall, exactlyOnce,
                 lastLifecycle, lifecycleReplayed, outcome>>
  /\ UNCHANGED auxVars

\* the last category of a chunk; on return indexNetwork takes the next chunk
\* or goes on to write the cursor
indexWithdrawalEvents ==
  /\ pc = "withdrawals"
  /\ LET requestEvents == queryFilter("WithdrawalRequested", chunks[1][1], chunks[1][2])
         processedEvents == queryFilter("WithdrawalProcessed", chunks[1][1], chunks[1][2])
         inserted == InsertRequested(dbWithdrawals, requestEvents)
     IN /\ dbWithdrawals' = UpdateProcessed(inserted, processedEvents)
        /\ dbTransactions' = dbTransactions + Len(requestEvents)
                               + ProcessedFound(inserted, processedEvents)
  /\ lastProcessedBlock' = chunks[1][2]
  /\ chunks' = Tail(chunks)
  /\ committed' = Append(committed, "withdrawals")
  /\ IF Len(chunks) > 1
     THEN /\ pc' = "campaigns"
          /\ handed' = Append(handed, chunks[2])
     ELSE /\ pc' = "writeCursor"
          /\ handed' = handed
  /\ UNCHANGED <<chainVars, dbCampaigns, dbDonations, indexer_state, passVars,
                 fromBlock, toBlock, mined, passes, directCalls, cursorWrites, cursorAtCall, exactlyOnce,
                 lastLifecycle, lifecycleReplayed, outcome>>
  /\ UNCHANGED auxVars

\* a category throws (a chain read fails after its retries, or a statement
\* fails): its transaction is rolled back and the error reaches the caller
CategoryThrows ==
  /\ pc \in {"campaigns", "donations", "withdrawals"}
  /\ RolledBack
  /\ pc' = AfterThrow(pc)
  /\ outcome' = "threw"
  /\ exactlyOnce' = FALSE
  /\ UNCHANGED <<chainVars, indexer_state, passVars, callVars,
                 mined, passes, directCalls, handed, committed, cursorWrites, cursorAtCall,
                 lastLifecycle, lifecycleReplayed>>
  /\ UNCHANGED auxVars

\* INSERT INTO indexer_state ... ON CONFLICT (chain) DO UPDATE
WriteCursor ==
  /\ pc = "writeCursor"
  /\ indexer_state' = lastProcessedBlock
  /\ cursorWrites' = cursorWrites + 1
  /\ pc' = "idle"
  /\ outcome' = "returned"
  /\ UNCHANGED <<chainVars, dbVars, passVars, callVars, mined, passes, directCalls, handed,
                 committed, cursorAtCall, exactlyOnce, lastLifecycle, lifecycleReplayed>>
  /\ UNCHANGED auxVars

\* ---- the scheduler: one pass of processNetworks over the main chain ----
IsRealtimeStrict(gap) == gap < REALTIME_THRESHOLD

IsRealtime(gap) == gap <= REALTIME_THRESHOLD

IsJumpAheadInclusive(gap) == gap >= MAX_ACCEPTABLE_GAP

IsJumpAhead(gap) == gap > MAX_ACCEPTABLE_GAP

RecentStartUnclamped(current) == current - RECENT_HISTORY_BLOCKS

RecentStart(current) == Max(1, current - RECENT_HISTORY_BLOCKS)

JumpCursorAtStart(from) == from

\* the cursor the jump-ahead persists
JumpCursor(from) == from - 1

BatchSizeOf(realtimeMode) ==
  IF realtimeMode THEN REALTIME_BATCH_SIZE ELSE CATCHUP_BATCH_SIZE

BlocksToProcessShort(current, from, batch) == Min(current - from, batch)

BlocksToProcess(current, from, batch) == Min(current - from + 1, batch)

\* the loop body of processNetworks for the main chain, up to the call of
\* indexNetwork
processMainNetwork ==
  /\ pc = "idle"
  /\ currentBlock' = head
  /\ lastIndexed' = indexer_state
  /\ LET hasCursor == indexer_state # NoRow
         gap == head - indexer_state
         realtimeMode == hasCursor /\ IsRealtime(gap)
         jump == hasCursor /\ IsJumpAhead(gap)
         from == IF hasCursor /\ ~jump THEN indexer_state + 1 ELSE RecentStart(head)
         cursorNow == IF jump THEN JumpCursor(from) ELSE indexer_state
         batch == BatchSizeOf(realtimeMode)
         to == from + BlocksToProcess(head, from, batch) - 1
     IN /\ jumpedAhead' = jump
        /\ indexer_state' = cursorNow
        /\ exactlyOnce' = (exactlyOnce /\ ~jump /\ (hasCursor \/ from = 1))
        /\ IF from > head
           THEN /\ batchSize' = 0
                /\ outcome' = "none"
                /\ UNCHANGED <<pc, callVars, handed, committed, cursorWrites, cursorAtCall>>
           ELSE /\ batchSize' = batch
                /\ indexNetwork(from, to, cursorNow)
  /\ UNCHANGED <<chainVars, dbVars, mined, directCalls, lastLifecycle, lifecycleReplayed>>

processNetworks ==
  /\ passes < MaxPasses
  /\ passes' = passes + 1
  /\ processMainNetwork
  /\ UNCHANGED auxVars

\* a direct call of the exported indexNetwork(network, from, to), over the
\* last span blocks of the chain
DirectSpans == {10001, 10002, 20001, 25000}

DirectCall ==
  /\ pc = "idle"
  /\ directCalls < MaxDirectCalls
  /\ directCalls' = directCalls + 1
  /\ \E span \in DirectSpans :
       /\ head - span + 1 >= 1
       /\ indexNetwork(head - span + 1, head, indexer_state)
  /\ exactlyOnce' = FALSE
  /\ UNCHANGED <<chainVars, dbVars, indexer_state, passVars, mined, passes,
                 lastLifecycle, lifecycleReplayed>>
  /\ UNCHANGED auxVars

\* the caller of indexNetwork repeats its last call, over the same range
ReplayCall ==
  /\ pc = "idle"
  /\ outcome \in {"threw", "returned"}
  /\ directCalls < MaxDirectCalls + 1
  /\ directCalls' = directCalls + 1
  /\ indexNetwork(fromBlock, toBlock, indexer_state)
  /\ exactlyOnce' = FALSE
  /\ UNCHANGED <<chainVars, dbVars, indexer_state, passVars, mined, passes,
                 lastLifecycle, lifecycleReplayed>>
  /\ UNCHANGED auxVars

\* ---- the chain's transactions ----
CreateTx ==
  /\ createCampaign("n1", 1)
  /\ UNCHANGED <<dbVars, indexer_state, pc, passVars, callVars, passes, directCalls,
                 handed, committed, cursorWrites, cursorAtCall, exactlyOnce,
                 lastLifecycle, lifecycleReplayed, outcome>>
  /\ UNCHANGED auxVars

EditTx ==
  /\ \E id \in Cids, edit \in Edits : editCampaign(id, edit[1], edit[2])
  /\ UNCHANGED <<dbVars, indexer_state, pc, passVars, callVars, passes, directCalls,
                 handed, committed, cursorWrites, cursorAtCall, exactlyOnce,
                 lastLifecycle, lifecycleReplayed, outcome>>
  /\ UNCHANGED auxVars

EndTx ==
  /\ \E id \in Cids : endCampaign(id)
  /\ UNCHANGED <<dbVars, indexer_state, pc, passVars, callVars, passes, directCalls,
                 handed, committed, cursorWrites, cursorAtCall, exactlyOnce,
                 lastLifecycle, lifecycleReplayed, outcome>>
  /\ UNCHANGED auxVars

DonateTx ==
  /\ \E id \in Cids, netUsd \in Amounts : donate(id, netUsd)
  /\ UNCHANGED <<dbVars, indexer_state, pc, passVars, callVars, passes, directCalls,
                 handed, committed, cursorWrites, cursorAtCall, exactlyOnce,
                 lastLifecycle, lifecycleReplayed, outcome>>
  /\ UNCHANGED auxVars

RequestTx ==
  /\ requestWithdrawal
  /\ UNCHANGED <<dbVars, indexer_state, pc, passVars, callVars, passes, directCalls,
                 handed, committed, cursorWrites, cursorAtCall, exactlyOnce,
                 lastLifecycle, lifecycleReplayed, outcome>>
  /\ UNCHANGED auxVars

ProcessTx ==
  /\ \E id \in Rids : processWithdrawalRequest(id)
  /\ UNCHANGED <<dbVars, indexer_state, pc, passVars, callVars, passes, directCalls,
                 handed, committed, cursorWrites, cursorAtCall, exactlyOnce,
                 lastLifecycle, lifecycleReplayed, outcome>>
  /\ UNCHANGED auxVars

\* ---- initial states: a chain at some head, a mirror at some cursor; in some
\* the first campaign was created in block createdAt, which no pass has indexed
\* (it lies above the cursor, or in blocks that the indexer's start skipped)
\* (the gaps 201 and 500,001 are one mined block away from their scenarios) ----
Scenarios ==
  {[head |-> 1, cursor |-> NoRow, createdAt |-> 0],
   [head |-> 200000, cursor |-> NoRow, createdAt |-> 150],
   [head |-> 1000, cursor |-> 950, createdAt |-> 960],
   [head |-> 1000, cursor |-> 800, createdAt |-> 0],
   [head |-> 1000, cursor |-> 1000, createdAt |-> 150],
   [head |-> 500100, cursor |-> 100, createdAt |-> 0],
   [head |-> 1000000, cursor |-> 100, createdAt |-> 990000]}

\* no reconciliation pass has run
ReconIdle ==
  /\ reconciliation_log = <<>>
  /\ reconPc = "idle"
  /\ reconRows = <<>>
  /\ campaignBatches = <<>>
  /\ updatedCount = 0
  /\ matchCount = 0
  /\ errorCount = 0
  /\ reconResult = <<>>
  /\ reconFailed = {}
  /\ reconTasks = <<>>

NoPoll == [row |-> 0, countBefore |-> 0, countAfter |-> 0, hashBefore |-> 0, hashAfter |-> 0,
           receipt |-> "none", fault |-> "none", attempted |-> FALSE, replacement |-> 0]
NoSubmit == [row |-> 0, failed |-> "none", outcome |-> "none"]

\* the relay has not run and the wallets are empty
RelayIdle ==
  /\ direct_donations = <<>>
  /\ walletBalance = <<>>
  /\ walletNonce = <<>>
  /\ walletShort = <<>>
  /\ sentTxs = <<>>
  /\ feeData = <<>>
  /\ relayPc = "idle"
  /\ relayWallet = 0
  /\ relayRow = 0
  /\ foundPending = "none"
  /\ readBalance = FALSE
  /\ createdRow = FALSE
  /\ lastPoll = NoPoll
  /\ lastSubmit = NoSubmit
  /\ prior = [rows |-> 0, txs |-> 0]

\* no call of withRetry is running
RetryIdle ==
  /\ retryPc = "idle"
  /\ attempt = 0
  /\ lastError = "none"
  /\ retryOutcome = "none"
  /\ retryLog = <<>>
  /\ waits = 0
  /\ waitedAfter = {}

\* no pass over the networks is running; every network is configured
LoopIdle ==
  /\ missingConfig = {}
  /\ providers = {}
  /\ passState = "idle"
  /\ netLoop = <<>>
  /\ networksProcessed = 0
  /\ cursorRead = FALSE
  /\ passTrace = <<>>
  /\ handedTo = {}
  /\ touched = {}

NoNote == [from |-> 0, to |-> 0, rows |-> <<>>, base |-> <<>>]
NoRun == [pc |-> "idle", from |-> 0, to |-> 0, runs |-> 0]
NoTick == [pc |-> "idle", row |-> 0, rows |-> {}, seen |-> 0, ticks |-> 0]

\* no wallet is derived or provisioned, and no second run or tick has started
ExtraIdle ==
  /\ walletArgs = <<>>
  /\ walletResults = <<>>
  /\ campaign_wallets = <<>>
  /\ requests = <<>>
  /\ masterSeed = ""
  /\ passNote = NoNote
  /\ otherRun = NoRun
  /\ otherTick = NoTick

InitAux == ReconIdle /\ RelayIdle /\ RetryIdle /\ LoopIdle /\ ExtraIdle

FirstCampaign ==
  [name |-> "n1", target |-> 1, description |-> "d1", socialLink |-> "s1",
   imageId |-> 1, creator |-> Creator, ended |-> FALSE, totalStable |-> 0]

\* no indexer run has started
InitRun ==
    /\ pc = "idle"
    /\ currentBlock = 0
    /\ lastIndexed = NoRow
    /\ fromBlock = 0
    /\ toBlock = 0
    /\ jumpedAhead = FALSE
    /\ batchSize = 0
    /\ chunks = <<>>
    /\ lastProcessedBlock = 0
    /\ mined = 0
    /\ passes = 0
    /\ directCalls = 0
    /\ handed = <<>>
    /\ committed = <<>>
    /\ cursorWrites = 0
    /\ cursorAtCall = NoRow
    /\ exactlyOnce = TRUE
    /\ lastLifecycle = [range |-> <<0, 0>>, logLen |-> -1, rows |-> <<>>]
    /\ lifecycleReplayed = FALSE
    /\ outcome = "none"

InitMirror(s) ==
    /\ head = s.head
    /\ log = IF s.createdAt > 0
             THEN <<[block |-> s.createdAt, kind |-> "CampaignCreated", campaignId |-> 1,
                     value |-> 0, requestId |-> 0]>>
             ELSE <<>>
    /\ campaignCount = IF s.createdAt > 0 THEN 1 ELSE 0
    /\ campaigns = [id \in Cids |-> IF s.createdAt > 0 /\ id = 1 THEN FirstCampaign
                                     ELSE EmptyCampaign]
    /\ withdrawalRequestCount = 0
    /\ withdrawalRequests = [id \in Rids |-> FALSE]
    /\ dbCampaigns = <<>>
    /\ dbDonations = <<>>
    /\ dbTransactions = 0
    /\ dbWithdrawals = <<>>
    /\ indexer_state = s.cursor
    /\ InitRun

InitAt(s) == InitMirror(s) /\ InitAux

Init == \E s \in Scenarios : InitAt(s)

Next ==
  \/ CreateTx
  \/ EditTx
  \/ EndTx
  \/ DonateTx
  \/ RequestTx
  \/ ProcessTx
  \/ processNetworks
  \/ indexCampaignEvents
  \/ indexDonationEvents
  \/ indexWithdrawalEvents
  \/ CategoryThrows
  \/ WriteCursor

Spec == Init /\ [][Next]_vars

\* direct calls of indexNetwork on a mirror that no scheduler pass is running on,
\* over a long chain that holds no campaign yet
DirectScenarios == {s \in Scenarios : s.head > MAX_ACCEPTABLE_GAP /\ s.createdAt = 0}

InitDirect == \E s \in DirectScenarios : InitAt(s)

NextDirect ==
  \/ CreateTx
  \/ EditTx
  \/ EndTx
  \/ DonateTx
  \/ RequestTx
  \/ ProcessTx
  \/ DirectCall
  \/ indexCampaignEvents
  \/ indexDonationEvents
  \/ indexWithdrawalEvents
  \/ CategoryThrows
  \/ WriteCursor

SpecDirect == InitDirect /\ [][NextDirect]_vars

\* direct calls of indexNetwork and their repetition, on a chain whose
\* transactions are withdrawal requests and their processing
NextReplay ==
  \/ RequestTx
  \/ ProcessTx
  \/ DirectCall
  \/ ReplayCall
  \/ indexCampaignEvents
  \/ indexDonationEvents
  \/ indexWithdrawalEvents
  \/ CategoryThrows
  \/ WriteCursor

SpecReplay == InitDirect /\ [][NextReplay]_vars

\* ---- reconciliation: one pass of reconcileCampaigns ----
\* RECONCILIATION_THRESHOLD = 0.01, in raw units
RECONCILIATION_THRESHOLD == Unit \div 100

Abs(x) == IF x >= 0 THEN x ELSE -x

\* the amounts a reconciled campaign holds in the mirror and on the chain: 0.02, 0.03, 0.04
ReconAmounts ==
  {2 * RECONCILIATION_THRESHOLD, 3 * RECONCILIATION_THRESHOLD, 4 * RECONCILIATION_THRESHOLD}

\* IEEE-754 doubles: parseFloat("0.04") - parseFloat("0.03") is 0.010000000000000002,
\* above the double 0.01
FloatAbove ==
  {<<3 * RECONCILIATION_THRESHOLD, 4 * RECONCILIATION_THRESHOLD>>,
   <<4 * RECONCILIATION_THRESHOLD, 3 * RECONCILIATION_THRESHOLD>>}

\* and parseFloat("0.03") - parseFloat("0.02") is 0.009999999999999998, below it
FloatBelow ==
  {<<2 * RECONCILIATION_THRESHOLD, 3 * RECONCILIATION_THRESHOLD>>,
   <<3 * RECONCILIATION_THRESHOLD, 2 * RECONCILIATION_THRESHOLD>>}

\* Math.abs(chainAmountRaised - dbAmountRaised) on doubles, as <<the difference
\* to 8 decimals, the sign of what the double differs from it by>>
discrepancyOf(chainAmountRaised, dbAmountRaised) ==
  <<Abs(chainAmountRaised - dbAmountRaised),
    IF <<chainAmountRaised, dbAmountRaised>> \in FloatAbove THEN 1
    ELSE IF <<chainAmountRaised, dbAmountRaised>> \in FloatBelow THEN -1 ELSE 0>>

NeedsReconciliationInclusive(discrepancy) ==
  discrepancy[1] >= RECONCILIATION_THRESHOLD

\* discrepancy > RECONCILIATION_THRESHOLD
NeedsReconciliation(discrepancy) ==
  \/ discrepancy[1] > RECONCILIATION_THRESHOLD
  \/ discrepancy[1] = RECONCILIATION_THRESHOLD /\ discrepancy[2] > 0

\* parseFloat(ethers.formatUnits(chainCampaign.totalStable, 8)), as a DECIMAL(24, 8)
chainAmountOf(chainCampaign) == Decimal(formatUnits(chainCampaign.totalStable))

ReconciledRowKeepsEnded(row, chainCampaign) ==
  [row EXCEPT !.amount_raised = chainAmountOf(chainCampaign)]

\* UPDATE campaigns SET amount_raised = $1, ended = $2
ReconciledRow(row, chainCampaign) ==
  [row EXCEPT !.amount_raised = chainAmountOf(chainCampaign), !.ended = chainCampaign.ended]

\* INSERT INTO reconciliation_log (campaign_id, previous_value, new_value, discrepancy)
LogRow(campaignId, dbAmountRaised, chainAmountRaised, discrepancy) ==
  [campaign_id |-> campaignId, previous_value |-> dbAmountRaised,
   new_value |-> chainAmountRaised, discrepancy |-> discrepancy[1]]

\* the rows of the SELECT, cut into slices of BATCH_SIZE
RECURSIVE Slices(_, _)
Slices(rows, i) ==
  IF i > Len(rows) THEN <<>>
  ELSE <<SubSeq(rows, i, Min(i + BATCH_SIZE - 1, Len(rows)))>> \o Slices(rows, i + BATCH_SIZE)

\* entry of reconcileCampaigns: the SELECT and the batches
reconcileCampaigns ==
  /\ reconPc = "idle"
  /\ reconRows' = [id \in DOMAIN dbCampaigns |->
                     [amount_raised |-> dbCampaigns[id].amount_raised,
                      ended |-> dbCampaigns[id].ended]]
  /\ campaignBatches' = Slices([i \in 1..Cardinality(DOMAIN dbCampaigns) |-> i], 1)
  /\ updatedCount' = 0
  /\ matchCount' = 0
  /\ errorCount' = 0
  /\ reconFailed' = {}
  /\ reconPc' = "batch"
  /\ UNCHANGED <<chainVars, dbVars, indexer_state, pc, passVars, callVars, histVars,
                 reconciliation_log, reconResult, reconTasks>>
  /\ UNCHANGED nonReconVars

\* the task of one campaign of the current batch, run to its end. The tasks
\* of a batch touch different rows, so they are taken in the order of the batch.
reconcileCampaign ==
  /\ reconPc = "batch"
  /\ campaignBatches # <<>>
  /\ Head(campaignBatches) # <<>>
  /\ LET campaignId == Head(Head(campaignBatches))
         chainCampaign == campaigns[campaignId]
         chainAmountRaised == chainAmountOf(chainCampaign)
         dbAmountRaised == reconRows[campaignId].amount_raised
         discrepancy == discrepancyOf(chainAmountRaised, dbAmountRaised)
     IN IF NeedsReconciliation(discrepancy)
        THEN /\ dbCampaigns' = [dbCampaigns EXCEPT ![campaignId] = ReconciledRow(@, chainCampaign)]
             /\ reconciliation_log' = Append(reconciliation_log,
                  LogRow(campaignId, dbAmountRaised, chainAmountRaised, discrepancy))
             /\ updatedCount' = updatedCount + 1
             /\ matchCount' = matchCount
        ELSE /\ matchCount' = matchCount + 1
             /\ UNCHANGED <<dbCampaigns, reconciliation_log, updatedCount>>
  /\ campaignBatches' = [campaignBatches EXCEPT ![1] = Tail(@)]
  /\ UNCHANGED <<chainVars, dbDonations, dbTransactions, dbWithdrawals, indexer_state, pc,
                 passVars, callVars, histVars, reconPc, reconRows, errorCount, reconResult,
                 reconFailed, reconTasks>>
  /\ UNCHANGED nonReconVars

\* the task of one campaign throws: at the chain read, at the UPDATE, or at the
\* INSERT of the log row (the UPDATE, a statement of its own, is then kept)
reconcileCampaignThrows ==
  /\ reconPc = "batch"
  /\ campaignBatches # <<>>
  /\ Head(campaignBatches) # <<>>
  /\ errorCount < MaxErrors
  /\ LET campaignId == Head(Head(campaignBatches))
         chainCampaign == campaigns[campaignId]
         discrepancy == discrepancyOf(chainAmountOf(chainCampaign),
                                      reconRows[campaignId].amount_raised)
     IN /\ \E stage \in {"read", "update", "log"} :
             /\ stage # "read" => NeedsReconciliation(discrepancy)
             /\ dbCampaigns' = IF stage = "log"
                               THEN [dbCampaigns EXCEPT ![campaignId] = ReconciledRow(@, chainCampaign)]
                               ELSE dbCampaigns
        /\ reconFailed' = reconFailed \cup {campaignId}
  /\ errorCount' = errorCount + 1
  /\ campaignBatches' = [campaignBatches EXCEPT ![1] = Tail(@)]
  /\ UNCHANGED <<chainVars, dbDonations, dbTransactions, dbWithdrawals, indexer_state, pc,
                 passVars, callVars, histVars, reconciliation_log, reconPc, reconRows,
                 updatedCount, matchCount, reconResult, reconTasks>>
  /\ UNCHANGED nonReconVars

\* Promise.all of the current batch has resolved
reconcileBatchDone ==
  /\ reconPc = "batch"
  /\ campaignBatches # <<>>
  /\ Head(campaignBatches) = <<>>
  /\ campaignBatches' = Tail(campaignBatches)
  /\ UNCHANGED <<chainVars, dbVars, indexer_state, pc, passVars, callVars, histVars,
                 reconciliation_log, reconPc, reconRows, updatedCount, matchCount,
                 errorCount, reconResult, reconFailed, reconTasks>>
  /\ UNCHANGED nonReconVars

\* return { total, updated, matched, errors }
reconcileReturn ==
  /\ reconPc = "batch"
  /\ campaignBatches = <<>>
  /\ reconResult' = [total |-> Cardinality(DOMAIN reconRows), updated |-> updatedCount,
                     matched |-> matchCount, errors |-> errorCount]
  /\ reconPc' = "done"
  /\ UNCHANGED <<chainVars, dbVars, indexer_state, pc, passVars, callVars, histVars,
                 reconciliation_log, reconRows, campaignBatches, updatedCount, matchCount,
                 errorCount, reconFailed, reconTasks>>
  /\ UNCHANGED nonReconVars

\* a mirror of BATCH_SIZE + MaxExtra campaigns: the first holds some amount in
\* the mirror and on the chain, the last 0.02 against 0.04, the others agree
ReconCampaigns == 1..(BATCH_SIZE + MaxExtra)

InitReconcile ==
  \E mirrorAmount \in ReconAmounts, chainAmount \in ReconAmounts, chainEnded \in BOOLEAN :
    /\ head = 1
    /\ log = <<>>
    /\ campaignCount = BATCH_SIZE + MaxExtra
    /\ campaigns = [id \in ReconCampaigns |->
         [FirstCampaign EXCEPT
            !.totalStable = IF id = 1 THEN chainAmount
                            ELSE IF id = BATCH_SIZE + MaxExtra THEN 4 * RECONCILIATION_THRESHOLD
                            ELSE 0,
            !.ended = IF id = 1 THEN chainEnded ELSE id = BATCH_SIZE + MaxExtra]]
    /\ withdrawalRequestCount = 0
    /\ withdrawalRequests = [id \in Rids |-> FALSE]
    /\ dbCampaigns = [id \in ReconCampaigns |->
         [createdValues(FirstCampaign) EXCEPT
            !.amount_raised = IF id = 1 THEN mirrorAmount
                              ELSE IF id = BATCH_SIZE + MaxExtra THEN 2 * RECONCILIATION_THRESHOLD
                              ELSE 0]]
    /\ dbDonations = <<>>
    /\ dbTransactions = 0
    /\ dbWithdrawals = <<>>
    /\ indexer_state = head
    /\ InitRun
    /\ ReconIdle
    /\ RelayIdle
    /\ RetryIdle
    /\ LoopIdle
  /\ ExtraIdle
    /\ ExtraIdle

NextReconcile ==
  \/ reconcileCampaigns
  \/ reconcileCampaign
  \/ reconcileCampaignThrows
  \/ reconcileBatchDone
  \/ reconcileReturn

SpecReconcile == InitReconcile /\ [][NextReconcile]_vars

\* ---- reconciliation: the tasks of a batch as Promise.all runs them ----
TaskCampaigns == {1, 2, 3}

\* batch.map calls the task of every campaign of the batch, and each runs to its
\* first await, the chain read
reconcileBatchStarts ==
  /\ reconPc = "batch"
  /\ campaignBatches # <<>>
  /\ Head(campaignBatches) # <<>>
  /\ reconTasks = <<>>
  /\ reconTasks' = [id \in {Head(campaignBatches)[i] : i \in DOMAIN Head(campaignBatches)} |->
                      "read"]
  /\ UNCHANGED <<chainVars, dbVars, indexer_state, pc, passVars, callVars, histVars,
                 reconciliation_log, reconPc, reconRows, campaignBatches, updatedCount,
                 matchCount, errorCount, reconResult, reconFailed>>
  /\ UNCHANGED nonReconVars

\* what one task awaits settles and the task runs to its next await or its end:
\* "read" is contract.campaigns(campaignId), "update" the UPDATE campaigns,
\* "log" the INSERT INTO reconciliation_log
reconcileTaskStep ==
  /\ reconPc = "batch"
  /\ \E campaignId \in DOMAIN reconTasks, threw \in BOOLEAN :
       LET stage == reconTasks[campaignId]
           chainCampaign == campaigns[campaignId]
           chainAmountRaised == chainAmountOf(chainCampaign)
           dbAmountRaised == reconRows[campaignId].amount_raised
           discrepancy == discrepancyOf(chainAmountRaised, dbAmountRaised)
       IN
       /\ stage \in {"read", "update", "log"}
       /\ threw => errorCount < MaxErrors
       /\ IF threw
            THEN /\ errorCount' = errorCount + 1
                 /\ reconFailed' = reconFailed \cup {campaignId}
                 /\ reconTasks' = [reconTasks EXCEPT ![campaignId] = "error"]
                 /\ UNCHANGED <<dbCampaigns, reconciliation_log, updatedCount, matchCount>>
          ELSE IF stage = "read"
            THEN /\ reconTasks' = [reconTasks EXCEPT ![campaignId] =
                                     IF NeedsReconciliation(discrepancy) THEN "update"
                                     ELSE "match"]
                 /\ matchCount' = IF NeedsReconciliation(discrepancy) THEN matchCount
                                  ELSE matchCount + 1
                 /\ UNCHANGED <<dbCampaigns, reconciliation_log, updatedCount, errorCount,
                                reconFailed>>
          ELSE IF stage = "update"
            THEN /\ dbCampaigns' =
                      [dbCampaigns EXCEPT ![campaignId] = ReconciledRow(@, chainCampaign)]
                 /\ reconTasks' = [reconTasks EXCEPT ![campaignId] = "log"]
                 /\ UNCHANGED <<reconciliation_log, updatedCount, matchCount, errorCount,
                                reconFailed>>
          ELSE /\ reconciliation_log' = Append(reconciliation_log,
                    LogRow(campaignId, dbAmountRaised, chainAmountRaised, discrepancy))
               /\ updatedCount' = updatedCount + 1
               /\ reconTasks' = [reconTasks EXCEPT ![campaignId] = "updated"]
               /\ UNCHANGED <<dbCampaigns, matchCount, errorCount, reconFailed>>
  /\ UNCHANGED <<chainVars, dbDonations, dbTransactions, dbWithdrawals, indexer_state, pc,
                 passVars, callVars, histVars, reconPc, reconRows, campaignBatches,
                 reconResult>>
  /\ UNCHANGED nonReconVars

\* Promise.all of the batch resolves when every task has returned
reconcileBatchSettles ==
  /\ reconPc = "batch"
  /\ reconTasks # <<>>
  /\ \A id \in DOMAIN reconTasks : reconTasks[id] \in {"updated", "match", "error"}
  /\ campaignBatches' = Tail(campaignBatches)
  /\ reconTasks' = <<>>
  /\ UNCHANGED <<chainVars, dbVars, indexer_state, pc, passVars, callVars, histVars,
                 reconciliation_log, reconPc, reconRows, updatedCount, matchCount,
                 errorCount, reconResult, reconFailed>>
  /\ UNCHANGED nonReconVars

\* a mirror of three campaigns, one batch: the first holds some amount in the
\* mirror against 0.04 on the chain, the second 0.02 against 0.04, the third
\* agrees in its amount; the second and third have ended on the chain only
InitTasks ==
  \E mirrorAmount \in ReconAmounts, chainEnded \in BOOLEAN :
    /\ head = 1
    /\ log = <<>>
    /\ campaignCount = Cardinality(TaskCampaigns)
    /\ campaigns = [id \in TaskCampaigns |->
         [FirstCampaign EXCEPT
            !.totalStable = IF id = 3 THEN 0 ELSE 4 * RECONCILIATION_THRESHOLD,
            !.ended = IF id = 1 THEN chainEnded ELSE TRUE]]
    /\ withdrawalRequestCount = 0
    /\ withdrawalRequests = [id \in Rids |-> FALSE]
    /\ dbCampaigns = [id \in TaskCampaigns |->
         [createdValues(FirstCampaign) EXCEPT
            !.amount_raised = IF id = 1 THEN mirrorAmount
                              ELSE IF id = 2 THEN 2 * RECONCILIATION_THRESHOLD
                              ELSE 0]]
    /\ dbDonations = <<>>
    /\ dbTransactions = 0
    /\ dbWithdrawals = <<>>
    /\ indexer_state = head
    /\ InitRun
    /\ ReconIdle
    /\ RelayIdle
    /\ RetryIdle
    /\ LoopIdle
    /\ ExtraIdle

NextTasks ==
  \/ reconcileCampaigns
  \/ reconcileBatchStarts
  \/ reconcileTaskStep
  \/ reconcileBatchSettles
  \/ reconcileReturn

SpecTasks == InitTasks /\ [][NextTasks]_vars


\* ---- the relay: directDonationMonitor, one tick of checkWalletsAndProcess ----
\* Balances are in 0.01 MATIC, fees in gwei.  Transaction hashes are positions
\* in sentTxs, donation ids are positions in direct_donations; 0 is SQL NULL.
MIN_DONATION_AMOUNT == 100
SUBMIT_FLOOR == 10
GAS_RESERVE_MIN == 5
MAX_PENDING_CHECKS == 15
GAS_PRICE_BOOST == 120
boostFactor == 150

Wallets == {1}
ContractAddress == 0
DepositAmounts == {200}
GasCosts == {1, 300}
FeeDatas == {[maxFeePerGas |-> 40, maxPriorityFeePerGas |-> 30],
             [maxFeePerGas |-> 21, maxPriorityFeePerGas |-> 3]}

\* x * pct / 100 in BigInt arithmetic
Boost(x, pct) == (x * pct) \div 100

PendingRowsAny(w) ==
  {id \in DOMAIN direct_donations : direct_donations[id].wallet_address = w}

PendingRowsHashed(w) ==
  {id \in DOMAIN direct_donations :
     /\ direct_donations[id].wallet_address = w
     /\ direct_donations[id].status = "pending"
     /\ direct_donations[id].contract_tx_hash # 0}

PendingRows(w) ==
  {id \in DOMAIN direct_donations :
     direct_donations[id].wallet_address = w /\ direct_donations[id].status = "pending"}

SetRow(id, row) == [direct_donations EXCEPT ![id] = row]

\* the loop of checkWalletsAndProcess moves to the next wallet or ends the tick
NextWallet ==
  IF relayWallet + 1 \in Wallets
    THEN relayPc' = "wallet" /\ relayWallet' = relayWallet + 1
    ELSE relayPc' = "idle" /\ relayWallet' = relayWallet

checkWalletsAndProcess ==
  /\ relayPc = "idle"
  /\ relayPc' = "wallet"
  /\ relayWallet' = 1
  /\ UNCHANGED <<direct_donations, sentTxs, relayRow, relayChain,
                 foundPending, readBalance, createdRow, lastPoll, lastSubmit>>
  /\ UNCHANGED <<mirrorVars, nonRelayVars, prior>>

\* replaceStuckTransaction(donationId, oldTxHash, wallet, provider, nonce): the
\* transaction it signs
ReplacementTxOnOldEstimate(id, oldTxHash, w, nonce) ==
  [from |-> w, to |-> w, value |-> 0, nonce |-> nonce,
   maxFeePerGas |-> Boost(sentTxs[oldTxHash].estimate.maxFeePerGas, boostFactor),
   maxPriorityFeePerGas |->
     Boost(sentTxs[oldTxHash].estimate.maxPriorityFeePerGas, boostFactor),
   estimate |-> feeData, row |-> id, replaces |-> oldTxHash, receipt |-> "none"]

ReplacementTx(id, oldTxHash, w, nonce) ==
  [from |-> w, to |-> w, value |-> 0, nonce |-> nonce,
   maxFeePerGas |-> Boost(feeData.maxFeePerGas, boostFactor),
   maxPriorityFeePerGas |-> Boost(feeData.maxPriorityFeePerGas, boostFactor),
   estimate |-> feeData, row |-> id, replaces |-> oldTxHash, receipt |-> "none"]

\* sendDonationTransaction: the donate transaction it signs
DonationTx(id, w, donationAmount) ==
  [from |-> w, to |-> ContractAddress, value |-> donationAmount, nonce |-> walletNonce[w],
   maxFeePerGas |-> Boost(feeData.maxFeePerGas, GAS_PRICE_BOOST),
   maxPriorityFeePerGas |-> Boost(feeData.maxPriorityFeePerGas, GAS_PRICE_BOOST),
   estimate |-> feeData, row |-> id, replaces |-> 0, receipt |-> "none"]

\* the poll has counted enough unconfirmed checks to replace the transaction
IsStuckLate(newCheckCount) == newCheckCount > MAX_PENDING_CHECKS

IsStuck(newCheckCount) == newCheckCount >= MAX_PENDING_CHECKS

PollFaults == {"receipt", "lookup", "fee", "send", "record"}

\* processWallet finds a pending row with a hash: handlePendingDonation polls it
\* and, from the MAX_PENDING_CHECKS-th unconfirmed poll on, replaces it
pollPendingDonation(w, id, fault) ==
  LET donation == direct_donations[id]
      txHash == donation.contract_tx_hash
      receipt == sentTxs[txHash].receipt
      newCheckCount == donation.check_count + 1
      counted == [donation EXCEPT !.check_count = newCheckCount]
      newHash == Len(sentTxs) + 1
      poll == [row |-> id, countBefore |-> donation.check_count, countAfter |-> newCheckCount,
               hashBefore |-> txHash, hashAfter |-> txHash, receipt |-> receipt,
               fault |-> fault, attempted |-> FALSE, replacement |-> 0]
  IN
  /\ txHash # 0
  /\ IF fault = "receipt"
       THEN /\ lastPoll' = [poll EXCEPT !.receipt = "threw", !.countAfter = donation.check_count]
            /\ UNCHANGED <<direct_donations, sentTxs>>
     ELSE IF receipt # "none"
       THEN /\ fault = "none"
            /\ direct_donations' =
                 SetRow(id, [donation EXCEPT
                               !.status = IF receipt = "success" THEN "completed" ELSE "failed"])
            /\ lastPoll' = [poll EXCEPT !.countAfter = donation.check_count]
            /\ UNCHANGED sentTxs
     ELSE IF ~IsStuck(newCheckCount)
       THEN /\ fault = "none"
            /\ direct_donations' = SetRow(id, counted)
            /\ lastPoll' = poll
            /\ UNCHANGED sentTxs
     ELSE IF fault \in {"lookup", "fee", "send"}
       THEN /\ Len(sentTxs) < prior.txs + MaxSent
            /\ newCheckCount <= MaxChecks
            /\ direct_donations' = SetRow(id, counted)
            /\ lastPoll' = [poll EXCEPT !.attempted = TRUE]
            /\ UNCHANGED sentTxs
     ELSE IF fault = "record"
       THEN /\ Len(sentTxs) < prior.txs + MaxSent
            /\ newCheckCount <= MaxChecks
            /\ sentTxs' = Append(sentTxs, ReplacementTx(id, txHash, w, sentTxs[txHash].nonce))
            /\ direct_donations' = SetRow(id, counted)
            /\ lastPoll' = [poll EXCEPT !.attempted = TRUE, !.replacement = newHash]
     ELSE /\ Len(sentTxs) < prior.txs + MaxSent
          /\ sentTxs' = Append(sentTxs, ReplacementTx(id, txHash, w, sentTxs[txHash].nonce))
          /\ direct_donations' =
               SetRow(id, [donation EXCEPT !.contract_tx_hash = newHash, !.check_count = 0])
          /\ lastPoll' = [poll EXCEPT !.attempted = TRUE, !.replacement = newHash,
                                      !.countAfter = 0, !.hashAfter = newHash]
  /\ NextWallet
  /\ foundPending' = "hashed"
  /\ readBalance' = FALSE
  /\ createdRow' = FALSE
  /\ UNCHANGED <<relayRow, lastSubmit>>

\* processWallet finds a pending row without a hash: handlePendingDonation hands
\* it to sendDonationTransaction
resumePendingDonation(id) ==
  /\ direct_donations[id].contract_tx_hash = 0
  /\ relayPc' = "submit"
  /\ relayRow' = id
  /\ foundPending' = "unhashed"
  /\ readBalance' = FALSE
  /\ createdRow' = FALSE
  /\ UNCHANGED <<direct_donations, sentTxs, relayWallet, lastPoll, lastSubmit>>

handlePendingDonation ==
  /\ relayPc = "wallet"
  /\ \E id \in PendingRows(relayWallet) :
       \/ \E fault \in PollFaults \cup {"none"} :
            pollPendingDonation(relayWallet, id, fault)
       \/ resumePendingDonation(id)
  /\ UNCHANGED relayChain
  /\ UNCHANGED <<mirrorVars, nonRelayVars, prior>>

\* A balance of 1 coin less up to RoundsToOneWei wei is nearer to the double 1.0
\* than to the double below it, 1 - 2^-53: Number() of its decimal string is 1.0
RoundsToOneWei == 55

\* Number(ethers.formatEther(balance)) < CONFIG.MIN_DONATION_AMOUNT, the balance
\* being walletBalance units of 0.01 coin less walletShort wei
balanceInMaticBelowMinimum(w) ==
  \/ walletBalance[w] < MIN_DONATION_AMOUNT
  \/ walletBalance[w] = MIN_DONATION_AMOUNT /\ walletShort[w] > RoundsToOneWei

\* processWallet finds no pending row: the balance is read and, at the threshold,
\* a pending row is inserted and handed to sendDonationTransaction
checkBalanceAndCreateDonation ==
  /\ relayPc = "wallet"
  /\ PendingRows(relayWallet) = {}
  /\ foundPending' = "none"
  /\ \E threw \in BOOLEAN :
       IF threw
         THEN /\ NextWallet
              /\ readBalance' = FALSE
              /\ createdRow' = FALSE
              /\ UNCHANGED <<direct_donations, relayRow>>
       ELSE IF balanceInMaticBelowMinimum(relayWallet)
         THEN /\ NextWallet
              /\ readBalance' = TRUE
              /\ createdRow' = FALSE
              /\ UNCHANGED <<direct_donations, relayRow>>
       ELSE /\ Len(direct_donations) < prior.rows + MaxRows
               /\ direct_donations' =
                    Append(direct_donations,
                           [wallet_address |-> relayWallet, status |-> "pending",
                            contract_tx_hash |-> 0, check_count |-> 0, tx_nonce |-> -1])
               /\ relayRow' = Len(direct_donations) + 1
               /\ relayPc' = "submit"
               /\ readBalance' = TRUE
               /\ createdRow' = TRUE
               /\ UNCHANGED relayWallet
  /\ UNCHANGED <<sentTxs, relayChain, lastPoll, lastSubmit>>
  /\ UNCHANGED <<mirrorVars, nonRelayVars, prior>>

SubmitFaults == {"balance", "fee", "gas", "nonce", "send", "record"}

\* the reserve kept back for gas: the buffered gas cost, at least GAS_RESERVE_MIN
finalGasReserve(gasCostWithBuffer) ==
  IF gasCostWithBuffer > GAS_RESERVE_MIN THEN gasCostWithBuffer ELSE GAS_RESERVE_MIN

SubmitEndWithoutFloor(balance, reserve, fault) ==
  IF fault = "balance" THEN "threw"
  ELSE IF fault \in {"fee", "gas"} THEN "threw"
  ELSE IF balance - reserve <= 0 THEN "insufficient"
  ELSE IF fault \in {"nonce", "send"} THEN "threw"
  ELSE IF fault = "record" THEN "threwAfterSend"
  ELSE "sent"

\* the statement that ends sendDonationTransaction with this balance, this
\* reserve and this fault (if any)
SubmitEnd(balance, reserve, fault) ==
  IF fault = "balance" THEN "threw"
  ELSE IF balance < SUBMIT_FLOOR THEN "skipped"
  ELSE IF fault \in {"fee", "gas"} THEN "threw"
  ELSE IF balance - reserve <= 0 THEN "insufficient"
  ELSE IF fault \in {"nonce", "send"} THEN "threw"
  ELSE IF fault = "record" THEN "threwAfterSend"
  ELSE "sent"

\* a fault can only be raised by a statement that is reached
FaultReached(balance, reserve, fault) ==
  \/ fault \in {"none", "balance"}
  \/ fault \in {"fee", "gas"} /\ balance >= SUBMIT_FLOOR
  \/ fault \in {"nonce", "send", "record"} /\ balance >= SUBMIT_FLOOR /\ balance - reserve > 0

MarkFailedSkipped(id) == direct_donations

MarkFailed(id) == SetRow(id, [direct_donations[id] EXCEPT !.status = "failed"])

sendDonationTransaction ==
  /\ relayPc = "submit"
  /\ \E fault \in SubmitFaults \cup {"none"}, gasCostWithBuffer \in GasCosts :
       LET id == relayRow
           w == relayWallet
           balance == walletBalance[w]
           reserve == finalGasReserve(gasCostWithBuffer)
           end == SubmitEnd(balance, reserve, fault)
           tx == DonationTx(id, w, balance - reserve)
       IN
       /\ FaultReached(balance, reserve, fault)
       /\ end \in {"threwAfterSend", "sent"} => Len(sentTxs) < prior.txs + MaxSent
       /\ readBalance' = IF fault = "balance" THEN readBalance ELSE TRUE
       /\ lastSubmit' = [row |-> id, failed |-> fault, outcome |-> end]
       /\ sentTxs' = IF end \in {"threwAfterSend", "sent"} THEN Append(sentTxs, tx) ELSE sentTxs
       /\ direct_donations' =
            CASE end = "skipped" -> direct_donations
              [] end \in {"threw", "insufficient", "threwAfterSend"} -> MarkFailed(id)
              [] end = "sent" ->
                   SetRow(id, [direct_donations[id] EXCEPT
                                 !.contract_tx_hash = Len(sentTxs) + 1,
                                 !.check_count = 0,
                                 !.tx_nonce = tx.nonce])
  /\ NextWallet
  /\ UNCHANGED <<relayRow, relayChain, foundPending, createdRow, lastPoll>>
  /\ UNCHANGED <<mirrorVars, nonRelayVars, prior>>

\* ---- the relay's environment: donors, the network, the miners ----
Deposit ==
  /\ \E w \in Wallets, amount \in DepositAmounts :
       /\ walletBalance[w] + amount <= MaxBalance
       /\ walletBalance' = [walletBalance EXCEPT ![w] = @ + amount]
  /\ UNCHANGED <<relayState, walletNonce, walletShort, feeData, relayHist>>
  /\ UNCHANGED <<mirrorVars, nonRelayVars, prior>>

FeeChange ==
  /\ \E fd \in FeeDatas \ {feeData} : feeData' = fd
  /\ UNCHANGED <<relayState, walletBalance, walletNonce, walletShort, relayHist>>
  /\ UNCHANGED <<mirrorVars, nonRelayVars, prior>>

\* a transaction whose nonce is the wallet's next one is mined, with either status
MineRelayTx ==
  /\ \E h \in DOMAIN sentTxs, status \in {"success", "reverted"} :
       LET tx == sentTxs[h]
           spent == IF status = "success" /\ tx.to = ContractAddress THEN tx.value ELSE 0
       IN
       /\ tx.receipt = "none"
       /\ tx.nonce = walletNonce[tx.from]
       /\ sentTxs' = [sentTxs EXCEPT ![h].receipt = status]
       /\ walletNonce' = [walletNonce EXCEPT ![tx.from] = @ + 1]
       /\ walletBalance' =
            [walletBalance EXCEPT ![tx.from] = IF @ > spent THEN @ - spent ELSE 0]
  /\ UNCHANGED <<direct_donations, relayPc, relayWallet, relayRow, walletShort, feeData, relayHist>>
  /\ UNCHANGED <<mirrorVars, nonRelayVars, prior>>

\* the table and the chain when the relay starts: an empty table; or a row whose
\* donate transaction was sent but not recorded (marked failed) and is not mined
\* yet; or a pending row whose donate transaction is recorded and not mined yet
RelayStarts == {"empty", "unrecorded", "submitted"}

InitRelayAt(start) ==
  /\ InitMirror([head |-> 1, cursor |-> NoRow, createdAt |-> 0])
  /\ ReconIdle
  /\ RetryIdle
  /\ LoopIdle
  /\ ExtraIdle
  /\ feeData \in FeeDatas
  /\ walletNonce = [w \in Wallets |-> 0]
  /\ walletShort = [w \in Wallets |-> 0]
  /\ LET balance == IF start = "empty" THEN 0 ELSE 200
         tx == DonationTx(1, 1, balance - GAS_RESERVE_MIN)
         row == [wallet_address |-> 1, status |-> "pending", contract_tx_hash |-> 0,
                 check_count |-> 0, tx_nonce |-> -1]
     IN
     /\ walletBalance = [w \in Wallets |-> balance]
     /\ sentTxs = IF start = "empty" THEN <<>> ELSE <<tx>>
     /\ direct_donations =
          CASE start = "empty" -> <<>>
            [] start = "unrecorded" -> <<[row EXCEPT !.status = "failed"]>>
            [] start = "submitted" ->
                 <<[row EXCEPT !.contract_tx_hash = 1, !.tx_nonce = 0]>>
     /\ prior = [rows |-> Cardinality(DOMAIN direct_donations \ PendingRows(1)),
                  txs |-> Len(sentTxs)]
  /\ relayPc = "idle"
  /\ relayWallet = 0
  /\ relayRow = 0
  /\ foundPending = "none"
  /\ readBalance = FALSE
  /\ createdRow = FALSE
  /\ lastPoll = NoPoll
  /\ lastSubmit = NoSubmit

InitRelay == \E start \in RelayStarts : InitRelayAt(start)

NextRelay ==
  \/ checkWalletsAndProcess
  \/ handlePendingDonation
  \/ checkBalanceAndCreateDonation
  \/ sendDonationTransaction
  \/ Deposit
  \/ MineRelayTx

SpecRelay == InitRelay /\ [][NextRelay]_vars

\* the relay's ticks over one submitted donation until it closes, on a network
\* whose fee estimate moves
NextRelayFees ==
  \/ checkWalletsAndProcess
  \/ handlePendingDonation
  \/ MineRelayTx
  \/ FeeChange

SpecRelayFees == InitRelayAt("submitted") /\ [][NextRelayFees]_vars

\* ---- a tick of the timer that starts while another tick is running ----
OverlapWallet == 1

\* processWallet of the second tick: its SELECT finds no pending row
otherTickSelects ==
  /\ otherTick.pc = "idle"
  /\ otherTick.ticks < MaxOverlaps
  /\ PendingRows(OverlapWallet) = {}
  /\ otherTick' = [otherTick EXCEPT !.pc = "selected", !.ticks = @ + 1,
                                    !.seen = Len(direct_donations)]
  /\ UNCHANGED <<relayState, relayChain, relayHist, prior>>
  /\ UNCHANGED <<passNote, otherRun, walletVars, provisionVars>>
  /\ UNCHANGED <<mirrorVars, reconVars, retryVars, loopVars>>

\* checkBalanceAndCreateDonation of the second tick
otherTickCreates ==
  /\ otherTick.pc = "selected"
  /\ \E threw \in BOOLEAN :
       IF threw \/ balanceInMaticBelowMinimum(OverlapWallet)
       THEN /\ otherTick' = [otherTick EXCEPT !.pc = "idle"]
            /\ UNCHANGED direct_donations
       ELSE /\ Len(direct_donations) < prior.rows + MaxRows
            /\ direct_donations' =
                 Append(direct_donations,
                        [wallet_address |-> OverlapWallet, status |-> "pending",
                         contract_tx_hash |-> 0, check_count |-> 0, tx_nonce |-> -1])
            /\ otherTick' = [otherTick EXCEPT !.pc = "submit",
                                              !.row = Len(direct_donations) + 1,
                                              !.rows = @ \cup {Len(direct_donations) + 1}]
  /\ UNCHANGED <<sentTxs, relayPc, relayWallet, relayRow, relayChain, relayHist, prior>>
  /\ UNCHANGED <<passNote, otherRun, walletVars, provisionVars>>
  /\ UNCHANGED <<mirrorVars, reconVars, retryVars, loopVars>>

\* sendDonationTransaction of the second tick, for the row it inserted
otherTickSubmits ==
  /\ otherTick.pc = "submit"
  /\ \E fault \in SubmitFaults \cup {"none"}, gasCostWithBuffer \in GasCosts :
       LET id == otherTick.row
           w == OverlapWallet
           balance == walletBalance[w]
           reserve == finalGasReserve(gasCostWithBuffer)
           end == SubmitEnd(balance, reserve, fault)
           tx == DonationTx(id, w, balance - reserve)
       IN
       /\ FaultReached(balance, reserve, fault)
       /\ end \in {"threwAfterSend", "sent"} => Len(sentTxs) <= prior.txs + MaxSent
       /\ sentTxs' = IF end \in {"threwAfterSend", "sent"} THEN Append(sentTxs, tx) ELSE sentTxs
       /\ direct_donations' =
            CASE end = "skipped" -> direct_donations
              [] end \in {"threw", "insufficient", "threwAfterSend"} -> MarkFailed(id)
              [] end = "sent" ->
                   SetRow(id, [direct_donations[id] EXCEPT
                                 !.contract_tx_hash = Len(sentTxs) + 1,
                                 !.check_count = 0,
                                 !.tx_nonce = tx.nonce])
  /\ otherTick' = [otherTick EXCEPT !.pc = "idle"]
  /\ UNCHANGED <<relayPc, relayWallet, relayRow, relayChain, relayHist, prior>>
  /\ UNCHANGED <<passNote, otherRun, walletVars, provisionVars>>
  /\ UNCHANGED <<mirrorVars, reconVars, retryVars, loopVars>>

\* processWallet of the first tick when it finds a pending row: a row without a
\* hash is resumed, a row whose transaction has a receipt is settled.  Polls of
\* an unconfirmed transaction are left to SpecRelay.
handleSettledDonation ==
  /\ relayPc = "wallet"
  /\ \E id \in PendingRows(relayWallet) :
       \/ /\ direct_donations[id].contract_tx_hash # 0
          /\ sentTxs[direct_donations[id].contract_tx_hash].receipt # "none"
          /\ pollPendingDonation(relayWallet, id, "none")
       \/ resumePendingDonation(id)
  /\ UNCHANGED relayChain
  /\ UNCHANGED <<mirrorVars, nonRelayVars, prior>>

\* the fee estimate is held at one value: both ticks read the same fee data, and it
\* has no part in which rows are found or inserted
InitTicks ==
  /\ InitRelayAt("empty")
  /\ feeData = [maxFeePerGas |-> 40, maxPriorityFeePerGas |-> 30]

NextTicks ==
  \/ checkWalletsAndProcess
  \/ handleSettledDonation
  \/ checkBalanceAndCreateDonation
  \/ sendDonationTransaction
  \/ Deposit
  \/ MineRelayTx
  \/ otherTickSelects
  \/ otherTickCreates
  \/ otherTickSubmits

SpecTicks == InitTicks /\ [][NextTicks]_vars

\* ---- withRetry: the retry wrapper of the RPC calls ----
MAX_RETRY_COUNT == 3

Results == {"r1", "r2"}
RpcErrors == {"e1", "e2", "e3", "e4"}

\* the catch block waits before the next attempt
ShouldDelayAlways(n) == TRUE

ShouldDelay(n) == n < MAX_RETRY_COUNT

\* the for loop goes round
LoopAgainOnceMore(n) == n <= MAX_RETRY_COUNT + 1

LoopAgain(n) == n <= MAX_RETRY_COUNT

\* attempt++ and the loop's test; past the loop, lastError is thrown
NextAttempt(error) ==
  /\ attempt' = attempt + 1
  /\ IF LoopAgain(attempt + 1)
       THEN retryPc' = "calling" /\ retryOutcome' = retryOutcome
       ELSE retryPc' = "threw" /\ retryOutcome' = error

withRetry ==
  /\ retryPc = "idle"
  /\ retryPc' = IF LoopAgain(1) THEN "calling" ELSE "threw"
  /\ attempt' = 1
  /\ UNCHANGED <<lastError, retryOutcome, retryLog, waits, waitedAfter>>
  /\ UNCHANGED <<mirrorVars, nonRetryVars>>

fnReturns ==
  /\ retryPc = "calling"
  /\ \E result \in Results :
       /\ retryLog' = Append(retryLog, result)
       /\ retryOutcome' = result
  /\ retryPc' = "returned"
  /\ UNCHANGED <<attempt, lastError, waits, waitedAfter>>
  /\ UNCHANGED <<mirrorVars, nonRetryVars>>

fnThrows ==
  /\ retryPc = "calling"
  /\ \E error \in RpcErrors :
       /\ retryLog' = Append(retryLog, error)
       /\ lastError' = error
       /\ IF ShouldDelay(attempt)
            THEN retryPc' = "waiting" /\ UNCHANGED <<attempt, retryOutcome>>
            ELSE NextAttempt(error)
  /\ UNCHANGED <<waits, waitedAfter>>
  /\ UNCHANGED <<mirrorVars, nonRetryVars>>

delayElapsed ==
  /\ retryPc = "waiting"
  /\ waits' = waits + 1
  /\ waitedAfter' = waitedAfter \cup {attempt}
  /\ NextAttempt(lastError)
  /\ UNCHANGED <<lastError, retryLog>>
  /\ UNCHANGED <<mirrorVars, nonRetryVars>>

InitRetry ==
  /\ InitMirror([head |-> 1, cursor |-> NoRow, createdAt |-> 0])
  /\ ReconIdle
  /\ RelayIdle
  /\ RetryIdle
  /\ LoopIdle
  /\ ExtraIdle

NextRetry ==
  \/ withRetry
  \/ fnReturns
  \/ fnThrows
  \/ delayElapsed

SpecRetry == InitRetry /\ [][NextRetry]_vars

\* ---- the scheduler: one pass of processNetworks over every network ----
NETWORKS ==
  [polygon   |-> [isMain |-> TRUE],
   ethereum  |-> [isMain |-> FALSE],
   bsc       |-> [isMain |-> FALSE],
   base      |-> [isMain |-> FALSE],
   avalanche |-> [isMain |-> FALSE],
   optimism  |-> [isMain |-> FALSE],
   arbitrum  |-> [isMain |-> FALSE],
   sonic     |-> [isMain |-> FALSE],
   soneium   |-> [isMain |-> FALSE]]

\* Object.entries(NETWORKS): the networks in insertion order
NetworkEntries ==
  <<"polygon", "ethereum", "bsc", "base", "avalanche", "optimism", "arbitrum", "sonic",
    "soneium">>

NetworkNames == DOMAIN NETWORKS

\* the networks whose RPC URL or contract address the environment leaves out
MissingConfigs == {{}, {"soneium"}, {"polygon"}, {"ethereum", "bsc"}}

\* the networks whose provider or contract constructor throws
BrokenProviders == {{}, {"polygon"}, {"base"}}

ValidateNothing(missing) == {}

\* validateEnvironment: the issues it collects; it throws when there is one
validateEnvironment(missing) == {network \in NetworkNames : network \in missing}

\* initializeProviders: the handles it creates
initializeProviders(missing, broken) == (NetworkNames \ missing) \ broken

\* initializeServices: TRUE when blockchainService.initialize() returned
initializeServices(missing) == validateEnvironment(missing) = {}

SkipsNoNetwork(network) == FALSE

\* for non-main chains, skip completely
SkipsNetwork(network) == ~NETWORKS[network].isMain

RejectsOnNetworkError == "rejected"

\* catch (networkError): the error is logged and the for loop goes on
AfterNetworkError == "loop"

\* processNetworks up to its for loop: the services are initialized and the
\* cursors are read; a failure of either rejects the pass
PassStarts ==
  /\ passState \in {"idle", "resolved", "rejected"}
  /\ pc = "idle"
  /\ passes < MaxPasses
  /\ passTrace' = <<>>
  /\ networksProcessed' = 0
  /\ \/ /\ ~initializeServices(missingConfig)
        /\ passState' = "rejected"
        /\ UNCHANGED <<providers, netLoop>>
        /\ cursorRead' = FALSE
     \/ /\ initializeServices(missingConfig)
        /\ \E broken \in BrokenProviders :
             providers' = providers \cup initializeProviders(missingConfig, broken)
        /\ \E selectThrows \in BOOLEAN :
             IF selectThrows
             THEN /\ passState' = "rejected"
                  /\ cursorRead' = FALSE
                  /\ UNCHANGED netLoop
             ELSE /\ passState' = "loop"
                  /\ cursorRead' = TRUE
                  /\ netLoop' = NetworkEntries
  /\ UNCHANGED <<missingConfig, handedTo, touched>>
  /\ UNCHANGED <<mirrorVars, nonLoopVars>>

\* the for loop takes a network that has no provider, or one that is not the
\* main chain
NetworkSkipped ==
  /\ passState = "loop"
  /\ netLoop # <<>>
  /\ LET network == Head(netLoop)
     IN \/ /\ network \notin providers
           /\ passTrace' = Append(passTrace, <<network, "noProvider">>)
           /\ UNCHANGED networksProcessed
        \/ /\ network \in providers
           /\ SkipsNetwork(network)
           /\ passTrace' = Append(passTrace, <<network, "notMain">>)
           /\ networksProcessed' = networksProcessed + 1
  /\ netLoop' = Tail(netLoop)
  /\ UNCHANGED <<missingConfig, providers, passState, cursorRead, handedTo, touched>>
  /\ UNCHANGED <<mirrorVars, nonLoopVars>>

\* the for loop takes the main chain: the head is read, the range is chosen and
\* handed to indexNetwork
MainNetworkTaken ==
  /\ passState = "loop"
  /\ netLoop # <<>>
  /\ LET network == Head(netLoop)
     IN /\ network \in providers
        /\ ~SkipsNetwork(network)
        /\ passes' = passes + 1
        /\ processMainNetwork
        /\ IF pc' = "idle"
           THEN /\ passTrace' = Append(passTrace, <<network, "noNewBlocks">>)
                /\ networksProcessed' = networksProcessed + 1
                /\ netLoop' = Tail(netLoop)
                /\ UNCHANGED <<passState, handedTo>>
           ELSE /\ passState' = "indexing"
                /\ handedTo' = handedTo \cup {network}
                /\ UNCHANGED <<passTrace, networksProcessed, netLoop>>
        /\ touched' = IF jumpedAhead' THEN touched \cup {network} ELSE touched
  /\ UNCHANGED <<missingConfig, providers, cursorRead>>
  /\ UNCHANGED nonLoopVars

\* provider.getBlockNumber() throws for the main chain
HeadReadThrows ==
  /\ passState = "loop"
  /\ netLoop # <<>>
  /\ LET network == Head(netLoop)
     IN /\ network \in providers
        /\ ~SkipsNetwork(network)
        /\ passTrace' = Append(passTrace, <<network, "failed">>)
  /\ passState' = AfterNetworkError
  /\ netLoop' = Tail(netLoop)
  /\ UNCHANGED <<missingConfig, providers, networksProcessed, cursorRead, handedTo, touched>>
  /\ UNCHANGED <<mirrorVars, nonLoopVars>>

\* indexNetwork has returned or thrown; the loop goes on to the next network
NetworkDone ==
  /\ passState = "indexing"
  /\ pc = "idle"
  /\ LET network == Head(netLoop)
     IN /\ IF outcome = "threw"
           THEN /\ passTrace' = Append(passTrace, <<network, "failed">>)
                /\ passState' = AfterNetworkError
                /\ UNCHANGED networksProcessed
           ELSE /\ passTrace' = Append(passTrace, <<network, "indexed">>)
                /\ passState' = "loop"
                /\ networksProcessed' = networksProcessed + 1
        /\ touched' = IF committed # <<>> \/ cursorWrites > 0
                      THEN touched \cup {network} ELSE touched
  /\ netLoop' = Tail(netLoop)
  /\ UNCHANGED <<missingConfig, providers, cursorRead, handedTo>>
  /\ UNCHANGED <<mirrorVars, nonLoopVars>>

\* the for loop is over: the summary is logged and processNetworks returns
PassCompletes ==
  /\ passState = "loop"
  /\ netLoop = <<>>
  /\ passState' = "resolved"
  /\ UNCHANGED <<missingConfig, providers, netLoop, networksProcessed, cursorRead, passTrace,
                 handedTo, touched>>
  /\ UNCHANGED <<mirrorVars, nonLoopVars>>

PassScenarios ==
  {[head |-> 1000, cursor |-> 950, createdAt |-> 960],
   [head |-> 1000, cursor |-> 1000, createdAt |-> 150],
   [head |-> 1000000, cursor |-> 100, createdAt |-> 990000]}

InitPass ==
  /\ \E s \in PassScenarios : InitMirror(s)
  /\ ReconIdle
  /\ RelayIdle
  /\ RetryIdle
  /\ ExtraIdle
  /\ missingConfig \in MissingConfigs
  /\ providers = {}
  /\ passState = "idle"
  /\ netLoop = <<>>
  /\ networksProcessed = 0
  /\ cursorRead = FALSE
  /\ passTrace = <<>>
  /\ handedTo = {}
  /\ touched = {}

NextPass ==
  \/ PassStarts
  \/ NetworkSkipped
  \/ MainNetworkTaken
  \/ HeadReadThrows
  \/ NetworkDone
  \/ PassCompletes
  \/ indexCampaignEvents
  \/ indexDonationEvents
  \/ indexWithdrawalEvents
  \/ CategoryThrows
  \/ WriteCursor

SpecPass == InitPass /\ [][NextPass]_vars

\* ---- generateCampaignWallet: the wallet of a campaign ----
\* JavaScript values, as <<type, value>> records
Undefined == [t |-> "undefined", v |-> ""]
Str(v) == [t |-> "string", v |-> v]

\* !value
Not(value) == value.t = "undefined" \/ (value.t = "string" /\ value.v = "")

MasterSeeds == {Undefined, Str(""), Str("seed1"), Str("seed2")}
CampaignIds == {"1", "2", "12"}

NoWallet == [address |-> <<>>, privateKey |-> <<>>, campaignId |-> ""]

CampaignMessageFixed(campaignId) == "campaign-"

\* `campaign-${campaignId}`
CampaignMessage(campaignId) == "campaign-" \o campaignId

\* crypto.createHmac('sha256', key).update(data).digest(): the digest, as the
\* term of its key and data (distinct keys or data, distinct digests)
HmacSha256(key, data) == <<"hmac-sha256", key, data>>

\* '0x' + Buffer.from(campaignSeed).toString('hex')
PrivateKeyOf(campaignSeed) == <<"0x", campaignSeed>>

\* new ethers.Wallet(privateKey).address: the address, as the term of its key
AddressOf(privateKey) == <<"address", privateKey>>

\* generateCampaignWallet(campaignId, masterSeed): what it throws ("" when it
\* returns) and the wallet it returns
generateCampaignWallet(campaignId, seed) ==
  IF Not(seed)
  THEN [error |-> "Master seed is required for wallet generation", wallet |-> NoWallet]
  ELSE LET campaignSeed == HmacSha256(seed.v, CampaignMessage(campaignId))
           privateKey == PrivateKeyOf(campaignSeed)
       IN [error |-> "",
           wallet |-> [address |-> AddressOf(privateKey), privateKey |-> privateKey,
                       campaignId |-> campaignId]]

\* one call of generateCampaignWallet, for one of the two campaign ids
CallGenerate ==
  /\ Len(walletResults) < MaxWalletCalls
  /\ \E k \in DOMAIN walletArgs.ids :
       walletResults' = Append(walletResults,
         [campaignId |-> walletArgs.ids[k],
          result |-> generateCampaignWallet(walletArgs.ids[k], walletArgs.seed)])
  /\ UNCHANGED <<walletArgs, provisionVars, overlapVars>>
  /\ UNCHANGED <<mirrorVars, reconVars, relayVars, retryVars, loopVars>>

InitWallet ==
  /\ InitMirror([head |-> 1, cursor |-> NoRow, createdAt |-> 0])
  /\ ReconIdle
  /\ RelayIdle
  /\ RetryIdle
  /\ LoopIdle
  /\ \E a \in CampaignIds, b \in CampaignIds, seed \in MasterSeeds :
       walletArgs = [ids |-> <<a, b>>, seed |-> seed]
  /\ walletResults = <<>>
  /\ campaign_wallets = <<>>
  /\ requests = <<>>
  /\ masterSeed = ""
  /\ passNote = NoNote
  /\ otherRun = NoRun
  /\ otherTick = NoTick

NextGenerate == CallGenerate

SpecWallet == InitWallet /\ [][NextGenerate]_vars

\* ---- GET /api/campaigns/:id/direct-wallet: the wallet of a campaign is provisioned ----
\* the ids of the rows of table campaigns, and an id that has no row
MirroredIds == {"1", "2"}
RequestedIds == MirroredIds \cup {"9"}

NoResponse == [status |-> 0, wallet_address |-> <<>>]

\* SELECT wallet_address FROM campaign_wallets WHERE campaign_id = $1
WalletRows(campaignId) ==
  SelectSeq(campaign_wallets, LAMBDA row : row.campaign_id = campaignId)

NotUnique(address) == FALSE

\* wallet_address VARCHAR(42) NOT NULL UNIQUE
AddressTaken(address) ==
  \E i \in DOMAIN campaign_wallets : campaign_wallets[i].wallet_address = address

Respond(r, status, address) ==
  requests' = [requests EXCEPT ![r].pc = "responded",
                               ![r].response = [status |-> status, wallet_address |-> address]]

\* SELECT * FROM campaigns WHERE id = $1; 404 when there is no row
SelectCampaign(r) ==
  /\ requests[r].pc = "new"
  /\ IF requests[r].id \in MirroredIds
     THEN requests' = [requests EXCEPT ![r].pc = "found"]
     ELSE Respond(r, 404, <<>>)
  /\ UNCHANGED <<campaign_wallets, masterSeed>>

\* the wallet of the campaign is looked up; when there is none, one is generated
SelectWallet(r) ==
  /\ requests[r].pc = "found"
  /\ LET walletResult == WalletRows(requests[r].id)
     IN IF Len(walletResult) > 0
        THEN Respond(r, 200, walletResult[1].wallet_address)
        ELSE IF Not(masterSeed)
        THEN Respond(r, 500, <<>>)
        ELSE requests' = [requests EXCEPT
               ![r].pc = "generated",
               ![r].wallet = generateCampaignWallet(requests[r].id, masterSeed).wallet]
  /\ UNCHANGED <<campaign_wallets, masterSeed>>

\* INSERT INTO campaign_wallets (campaign_id, wallet_address, private_key);
\* a statement that violates the unique key throws, and the catch answers 500
InsertWallet(r) ==
  /\ requests[r].pc = "generated"
  /\ LET wallet == requests[r].wallet
     IN IF AddressTaken(wallet.address)
        THEN /\ Respond(r, 500, <<>>)
             /\ UNCHANGED campaign_wallets
        ELSE /\ campaign_wallets' = Append(campaign_wallets,
                  [campaign_id |-> requests[r].id, wallet_address |-> wallet.address,
                   private_key |-> wallet.privateKey])
             /\ Respond(r, 200, wallet.address)
  /\ UNCHANGED masterSeed

DirectWalletRoute ==
  /\ \E r \in DOMAIN requests : SelectCampaign(r) \/ SelectWallet(r) \/ InsertWallet(r)
  /\ UNCHANGED <<walletVars, overlapVars>>
  /\ UNCHANGED <<mirrorVars, reconVars, relayVars, retryVars, loopVars>>

InitProvision ==
  /\ InitMirror([head |-> 1, cursor |-> NoRow, createdAt |-> 0])
  /\ ReconIdle
  /\ RelayIdle
  /\ RetryIdle
  /\ LoopIdle
  /\ walletArgs = <<>>
  /\ walletResults = <<>>
  /\ campaign_wallets = <<>>
  /\ \E ids \in [1..MaxWalletRequests -> RequestedIds] :
       requests = [r \in 1..MaxWalletRequests |->
                     [id |-> ids[r], pc |-> "new", wallet |-> NoWallet, response |-> NoResponse]]
  /\ masterSeed \in {Undefined, Str("seed1")}
  /\ passNote = NoNote
  /\ otherRun = NoRun
  /\ otherTick = NoTick

NextProvision == DirectWalletRoute

SpecProvision == InitProvision /\ [][NextProvision]_vars

\* ---- a mirror that is behind a chain on which a donation has been made ----
\* The first campaign was created in block createdAt and received one donation
\* in block donatedAt; mirrored tells whether its CampaignCreated event has been
\* indexed (before the donation was made).
DonationEvent(s) ==
  [block |-> s.donatedAt, kind |-> "DonationMade", campaignId |-> 1,
   value |-> CHOOSE a \in Amounts : TRUE, requestId |-> 0]

DonatedCampaign(s) == [FirstCampaign EXCEPT !.totalStable = DonationEvent(s).value]

InitBacklog(s) ==
  /\ head = s.head
  /\ log = <<[block |-> s.createdAt, kind |-> "CampaignCreated", campaignId |-> 1,
              value |-> 0, requestId |-> 0],
             DonationEvent(s)>>
  /\ campaignCount = 1
  /\ campaigns = [id \in Cids |-> IF id = 1 THEN DonatedCampaign(s) ELSE EmptyCampaign]
  /\ withdrawalRequestCount = 0
  /\ withdrawalRequests = [id \in Rids |-> FALSE]
  /\ dbCampaigns = IF s.mirrored THEN [id \in {1} |-> createdValues(FirstCampaign)] ELSE <<>>
  /\ dbDonations = <<>>
  /\ dbTransactions = 0
  /\ dbWithdrawals = <<>>
  /\ indexer_state = s.cursor
  /\ InitRun
  /\ ReconIdle
  /\ RelayIdle
  /\ RetryIdle
  /\ LoopIdle
  /\ ExtraIdle

\* ---- a pass that fails after its donations were committed, and the pass after it ----
\* the last block whose donations the run that has just ended committed
CommittedTo == handed[(Len(committed) + 1) \div 3][2]

FailedAfterDonations == outcome = "threw" /\ Len(committed) >= 2

\* a pass of processNetworks, noting the pass before it
processNetworksAgain ==
  /\ passes < MaxPasses
  /\ passes' = passes + 1
  /\ processMainNetwork
  /\ passNote' = IF FailedAfterDonations
                 THEN [from |-> fromBlock, to |-> CommittedTo, rows |-> dbCampaigns,
                       base |-> passNote.rows]
                 ELSE [NoNote EXCEPT !.rows = dbCampaigns]
  /\ UNCHANGED <<otherRun, otherTick, walletVars, provisionVars>>
  /\ UNCHANGED <<reconVars, relayVars, retryVars, loopVars>>

PartialScenarios ==
  {[head |-> 1000, cursor |-> 950, createdAt |-> 900, mirrored |-> TRUE, donatedAt |-> 960],
   [head |-> 500100, cursor |-> 100, createdAt |-> 50, mirrored |-> TRUE, donatedAt |-> 150]}

InitPartial == \E s \in PartialScenarios : InitBacklog(s)

NextPartial ==
  \/ DonateTx
  \/ processNetworksAgain
  \/ indexCampaignEvents
  \/ indexDonationEvents
  \/ indexWithdrawalEvents
  \/ CategoryThrows
  \/ WriteCursor

SpecPartial == InitPartial /\ [][NextPartial]_vars

\* ---- passes repeated for ever, on a chain whose reads never fail ----
\* a pass of processNetworks; the scheduler starts one after another
processNetworksForever ==
  /\ processMainNetwork
  /\ UNCHANGED passes
  /\ UNCHANGED auxVars

\* a statement of the category violates a constraint of the schema: the
\* category rolls back and throws
StatementThrows ==
  /\ \/ /\ pc = "donations"
        /\ DonationViolates(dbCampaigns, queryFilter("DonationMade", chunks[1][1], chunks[1][2]))
     \/ /\ pc = "campaigns"
        /\ EndedTxViolates(
             UpdateEnded(UpdateEdited(InsertCreated(dbCampaigns,
               queryFilter("CampaignCreated", chunks[1][1], chunks[1][2])),
               queryFilter("CampaignEdited", chunks[1][1], chunks[1][2])),
               queryFilter("CampaignEnded", chunks[1][1], chunks[1][2])),
             queryFilter("CampaignEnded", chunks[1][1], chunks[1][2]))
  /\ CategoryThrows

\* a first start and a jump-ahead whose window holds a donation to a campaign
\* created in the abandoned span, and a jump-ahead whose window holds both the
\* creation and the donation
LiveScenarios ==
  {[head |-> 200000, cursor |-> NoRow, createdAt |-> 150, mirrored |-> FALSE,
    donatedAt |-> 150000],
   [head |-> 1000000, cursor |-> 100, createdAt |-> 200, mirrored |-> FALSE,
    donatedAt |-> 950000],
   [head |-> 1000000, cursor |-> 100, createdAt |-> 920000, mirrored |-> FALSE,
    donatedAt |-> 950000]}

InitLive == \E s \in LiveScenarios : InitBacklog(s)

IndexerStep ==
  \/ processNetworksForever
  \/ indexCampaignEvents
  \/ indexDonationEvents
  \/ indexWithdrawalEvents
  \/ StatementThrows
  \/ WriteCursor

NextLive ==
  \/ EndTx
  \/ IndexerStep

\* the worker is run again and again, and every await of a pass settles
SpecLive == InitLive /\ [][NextLive]_vars /\ WF_vars(IndexerStep)

\* ---- reconciliation while the indexer is behind the head ----
HealScenarios ==
  {[head |-> 1000, cursor |-> 950, createdAt |-> 900, mirrored |-> TRUE, donatedAt |-> 960],
   [head |-> 1000, cursor |-> 950, createdAt |-> 900, mirrored |-> TRUE, donatedAt |-> 940]}

InitHeal == \E s \in HealScenarios : InitBacklog(s)

\* reconciliation passes and scheduler passes, none of which fails
NextHeal ==
  \/ DonateTx
  \/ reconcileCampaigns
  \/ reconcileCampaign
  \/ reconcileBatchDone
  \/ reconcileReturn
  \/ processNetworks
  \/ indexCampaignEvents
  \/ indexDonationEvents
  \/ indexWithdrawalEvents
  \/ WriteCursor

SpecHeal == InitHeal /\ [][NextHeal]_vars

\* ---- two runs of the worker that overlap ----
\* the range a pass chooses from the cursor and the head it has read
PassRange(cursor, current) ==
  LET hasCursor == cursor # NoRow
      gap == current - cursor
      realtimeMode == hasCursor /\ IsRealtime(gap)
      jump == hasCursor /\ IsJumpAhead(gap)
      from == IF hasCursor /\ ~jump THEN cursor + 1 ELSE RecentStart(current)
      batch == BatchSizeOf(realtimeMode)
  IN [jump |-> jump, from |-> from, to |-> from + BlocksToProcess(current, from, batch) - 1]

\* the second run reads the cursor and the head and chooses its range
otherRunStarts ==
  /\ otherRun.pc = "idle"
  /\ otherRun.runs < MaxOverlaps
  /\ LET range == PassRange(indexer_state, head)
     IN /\ indexer_state' = IF range.jump THEN JumpCursor(range.from) ELSE indexer_state
        /\ otherRun' = [pc |-> IF range.from > head THEN "idle" ELSE "campaigns",
                        from |-> range.from, to |-> range.to, runs |-> otherRun.runs + 1]
  /\ UNCHANGED <<chainVars, dbVars, pc, passVars, callVars, histVars>>
  /\ UNCHANGED <<passNote, otherTick, walletVars, provisionVars>>
  /\ UNCHANGED <<reconVars, relayVars, retryVars, loopVars>>

\* the second run commits the next category of its range, or writes its cursor
otherRunStep ==
  /\ otherRun.pc \in {"campaigns", "donations", "withdrawals", "writeCursor"}
  /\ LET from == otherRun.from
         to == otherRun.to
         endedEvents == queryFilter("CampaignEnded", from, to)
         donationEvents == queryFilter("DonationMade", from, to)
         requestEvents == queryFilter("WithdrawalRequested", from, to)
         processedEvents == queryFilter("WithdrawalProcessed", from, to)
         rows == UpdateEnded(UpdateEdited(InsertCreated(dbCampaigns,
                   queryFilter("CampaignCreated", from, to)),
                   queryFilter("CampaignEdited", from, to)), endedEvents)
         inserted == InsertRequested(dbWithdrawals, requestEvents)
     IN CASE otherRun.pc = "campaigns" ->
               /\ ~EndedTxViolates(rows, endedEvents)
               /\ dbCampaigns' = rows
               /\ dbTransactions' = dbTransactions + Len(queryFilter("CampaignCreated", from, to))
                    + Len(queryFilter("CampaignEdited", from, to)) + Len(endedEvents)
               /\ otherRun' = [otherRun EXCEPT !.pc = "donations"]
               /\ UNCHANGED <<dbDonations, dbWithdrawals, indexer_state>>
          [] otherRun.pc = "donations" ->
               /\ ~DonationViolates(dbCampaigns, donationEvents)
               /\ dbDonations' = InsertDonations(dbDonations, donationEvents)
               /\ dbCampaigns' = UpdateAmounts(dbCampaigns, donationEvents)
               /\ dbTransactions' = dbTransactions + Len(donationEvents)
               /\ otherRun' = [otherRun EXCEPT !.pc = "withdrawals"]
               /\ UNCHANGED <<dbWithdrawals, indexer_state>>
          [] otherRun.pc = "withdrawals" ->
               /\ dbWithdrawals' = UpdateProcessed(inserted, processedEvents)
               /\ dbTransactions' = dbTransactions + Len(requestEvents)
                                      + ProcessedFound(inserted, processedEvents)
               /\ otherRun' = [otherRun EXCEPT !.pc = "writeCursor"]
               /\ UNCHANGED <<dbCampaigns, dbDonations, indexer_state>>
          [] otherRun.pc = "writeCursor" ->
               /\ indexer_state' = to
               /\ otherRun' = [otherRun EXCEPT !.pc = "done"]
               /\ UNCHANGED dbVars
  /\ UNCHANGED <<chainVars, pc, passVars, callVars, histVars>>
  /\ UNCHANGED <<passNote, otherTick, walletVars, provisionVars>>
  /\ UNCHANGED <<reconVars, relayVars, retryVars, loopVars>>

OverlapScenarios ==
  {[head |-> 1000, cursor |-> 950, createdAt |-> 900, mirrored |-> TRUE, donatedAt |-> 960],
   [head |-> 1000, cursor |-> 950, createdAt |-> 900, mirrored |-> TRUE, donatedAt |-> 1000]}

InitOverlap == \E s \in OverlapScenarios : InitBacklog(s)

\* two runs, neither of which fails, and donors
NextOverlap ==
  \/ DonateTx
  \/ processNetworks
  \/ indexCampaignEvents
  \/ indexDonationEvents
  \/ indexWithdrawalEvents
  \/ WriteCursor
  \/ otherRunStarts
  \/ otherRunStep

SpecOverlap == InitOverlap /\ [][NextOverlap]_vars

\* ---- the relay polling one submitted donation for ever ----
\* the node refuses a transaction whose nonce the wallet has used already
NonceSpent(w, nonce) == nonce < walletNonce[w]

\* check_count as the test against MAX_PENDING_CHECKS sees it: the counts from
\* MaxChecks on are not told apart
Saturated(count) == IF count > MaxChecks THEN MaxChecks ELSE count

\* handlePendingDonation for a row with a hash, and replaceStuckTransaction,
\* when every call to the node and to the database answers: the receipt of the
\* stored hash is read; without one the poll is counted, and from the
\* MAX_PENDING_CHECKS-th on the nonce is looked up and a replacement sent.  The
\* stored transaction of a spent nonce is in no pool any more: looking it up
\* gives nothing (dropped TRUE) or sending at its nonce is refused.
pollStuckDonation ==
  /\ relayPc = "wallet"
  /\ \E id \in PendingRows(relayWallet), dropped \in BOOLEAN :
       LET donation == direct_donations[id]
           txHash == donation.contract_tx_hash
           receipt == sentTxs[txHash].receipt
           newCheckCount == Saturated(donation.check_count + 1)
           counted == [donation EXCEPT !.check_count = newCheckCount]
           nonce == sentTxs[txHash].nonce
           refused == NonceSpent(relayWallet, nonce)
       IN
       /\ txHash # 0
       /\ dropped => refused
       /\ IF receipt # "none"
            THEN /\ ~dropped
                 /\ direct_donations' =
                      SetRow(id, [donation EXCEPT
                                    !.status = IF receipt = "success" THEN "completed"
                                               ELSE "failed"])
                 /\ UNCHANGED sentTxs
          ELSE IF ~IsStuck(newCheckCount)
            THEN /\ ~dropped
                 /\ direct_donations' = SetRow(id, counted)
                 /\ UNCHANGED sentTxs
          ELSE IF refused
            THEN /\ direct_donations' = SetRow(id, counted)
                 /\ UNCHANGED sentTxs
          ELSE /\ Len(sentTxs) < prior.txs + MaxSent
               /\ sentTxs' = Append(sentTxs, ReplacementTx(id, txHash, relayWallet, nonce))
               /\ direct_donations' =
                    SetRow(id, [donation EXCEPT !.contract_tx_hash = Len(sentTxs) + 1,
                                                !.check_count = 0])
  /\ NextWallet
  /\ UNCHANGED <<relayRow, relayChain, relayHist>>
  /\ UNCHANGED <<mirrorVars, nonRelayVars, prior>>

\* the timer fires every CHECK_INTERVAL_MS and every await of a tick settles
RelayStep == checkWalletsAndProcess \/ pollStuckDonation

InitStuck ==
  /\ InitRelayAt("submitted")
  /\ feeData = [maxFeePerGas |-> 40, maxPriorityFeePerGas |-> 30]

NextStuck == RelayStep \/ MineRelayTx

SpecStuck == InitStuck /\ [][NextStuck]_vars /\ WF_vars(RelayStep)

\* ---- sendDonationTransaction with its arithmetic ----
\* Gas is counted in units for which gas * fee is an amount in 0.01 MATIC.
GasEstimates == {1, 2, 4}
SubmitFees == {[maxFeePerGas |-> 1, maxPriorityFeePerGas |-> 1],
               [maxFeePerGas |-> 3, maxPriorityFeePerGas |-> 2],
               [maxFeePerGas |-> 40, maxPriorityFeePerGas |-> 30]}
SubmitBalances == {9, 10, 72, 73, 200}

GasLimitUnbuffered(gasEstimate) == gasEstimate

\* gasEstimate * 130n / 100n
gasLimitOf(gasEstimate) == (gasEstimate * 130) \div 100

\* gasLimit * maxFeePerGas, and gasCost * 150n / 100n
gasCostOf(gasLimit, maxFeePerGas) == gasLimit * maxFeePerGas

gasCostWithBufferOf(gasCost) == (gasCost * 150) \div 100

\* sendDonationTransaction, the reserve computed from the gas estimate and the
\* boosted fee as the code computes it
sendDonationComputed ==
  /\ relayPc = "submit"
  /\ \E fault \in SubmitFaults \cup {"none"}, gasEstimate \in GasEstimates :
       LET id == relayRow
           w == relayWallet
           balance == walletBalance[w]
           maxFeePerGas == Boost(feeData.maxFeePerGas, GAS_PRICE_BOOST)
           gasLimit == gasLimitOf(gasEstimate)
           gasCost == gasCostOf(gasLimit, maxFeePerGas)
           reserve == finalGasReserve(gasCostWithBufferOf(gasCost))
           donationAmount == balance - reserve
           end == SubmitEnd(balance, reserve, fault)
           nonce == walletNonce[w]
           tx == [DonationTx(id, w, donationAmount) EXCEPT !.nonce = nonce]
                   @@ [gasLimit |-> gasLimit]
           sends == end \in {"threwAfterSend", "sent"}
       IN
       /\ FaultReached(balance, reserve, fault)
       /\ sends => Len(sentTxs) < prior.txs + MaxSent
       /\ readBalance' = IF fault = "balance" THEN readBalance ELSE TRUE
       /\ lastSubmit' = [row |-> id, failed |-> fault, outcome |-> end, balance |-> balance,
                         gasEstimate |-> gasEstimate, nonce |-> nonce,
                         hash |-> IF sends THEN Len(sentTxs) + 1 ELSE 0]
       /\ sentTxs' = IF sends THEN Append(sentTxs, tx) ELSE sentTxs
       /\ direct_donations' =
            CASE end = "skipped" -> direct_donations
              [] end \in {"threw", "insufficient", "threwAfterSend"} -> MarkFailed(id)
              [] end = "sent" ->
                   SetRow(id, [direct_donations[id] EXCEPT
                                 !.contract_tx_hash = Len(sentTxs) + 1,
                                 !.check_count = 0,
                                 !.tx_nonce = nonce])
  /\ NextWallet
  /\ UNCHANGED <<relayRow, relayChain, foundPending, createdRow, lastPoll>>
  /\ UNCHANGED <<mirrorVars, nonRelayVars, prior>>

\* a wallet whose pending row has no hash yet, at any balance and fee estimate
InitSubmit ==
  /\ InitMirror([head |-> 1, cursor |-> NoRow, createdAt |-> 0])
  /\ ReconIdle
  /\ RetryIdle
  /\ LoopIdle
  /\ ExtraIdle
  /\ feeData \in SubmitFees
  /\ walletNonce = [w \in Wallets |-> 0]
  /\ walletShort = [w \in Wallets |-> 0]
  /\ walletBalance \in [Wallets -> SubmitBalances]
  /\ sentTxs = <<>>
  /\ direct_donations = <<[wallet_address |-> 1, status |-> "pending", contract_tx_hash |-> 0,
                           check_count |-> 0, tx_nonce |-> -1]>>
  /\ prior = [rows |-> 0, txs |-> 0]
  /\ relayPc = "idle"
  /\ relayWallet = 0
  /\ relayRow = 0
  /\ foundPending = "none"
  /\ readBalance = FALSE
  /\ createdRow = FALSE
  /\ lastPoll = NoPoll
  /\ lastSubmit = NoSubmit

NextSubmit ==
  \/ checkWalletsAndProcess
  \/ handleSettledDonation
  \/ sendDonationComputed
  \/ MineRelayTx

SpecSubmit == InitSubmit /\ [][NextSubmit]_vars

\* ---- a tick that finds a balance near the minimum ----
MinimumBalances == {99, 100, 200}
ShortWei == {0, 1, 55, 56}

\* an empty table and a wallet holding about one coin
InitMinimum ==
  /\ InitMirror([head |-> 1, cursor |-> NoRow, createdAt |-> 0])
  /\ ReconIdle
  /\ RetryIdle
  /\ LoopIdle
  /\ ExtraIdle
  /\ feeData \in FeeDatas
  /\ walletNonce = [w \in Wallets |-> 0]
  /\ walletBalance \in [Wallets -> MinimumBalances]
  /\ walletShort \in [Wallets -> ShortWei]
  /\ sentTxs = <<>>
  /\ direct_donations = <<>>
  /\ prior = [rows |-> 0, txs |-> 0]
  /\ relayPc = "idle"
  /\ relayWallet = 0
  /\ relayRow = 0
  /\ foundPending = "none"
  /\ readBalance = FALSE
  /\ createdRow = FALSE
  /\ lastPoll = NoPoll
  /\ lastSubmit = NoSubmit

NextMinimum ==
  \/ checkWalletsAndProcess
  \/ checkBalanceAndCreateDonation
  \/ sendDonationTransaction
  \/ handleSettledDonation
  \/ MineRelayTx

SpecMinimum == InitMinimum /\ [][NextMinimum]_vars

\* ---- passes repeated on a chain whose head stands still ----
\* a mirror that is complete up to its cursor, at most MAX_ACCEPTABLE_GAP below
\* the head: at the head, one realtime pass below it, two realtime passes, one
\* catch-up pass, and a hundred catch-up passes and two realtime ones
ClimbScenarios ==
  {[head |-> 1000, cursor |-> 1000, createdAt |-> 900, donatedAt |-> 950],
   [head |-> 1000, cursor |-> 950, createdAt |-> 900, donatedAt |-> 960],
   [head |-> 1000, cursor |-> 800, createdAt |-> 850, donatedAt |-> 950],
   [head |-> 1000, cursor |-> 799, createdAt |-> 800, donatedAt |-> 1000],
   [head |-> 500100, cursor |-> 100, createdAt |-> 101, donatedAt |-> 500100]}

\* the mirror holds what the blocks up to the cursor hold
InitClimb ==
  \E s \in ClimbScenarios :
    /\ head = s.head
    /\ log = <<[block |-> s.createdAt, kind |-> "CampaignCreated", campaignId |-> 1,
                value |-> 0, requestId |-> 0],
               DonationEvent(s)>>
    /\ campaignCount = 1
    /\ campaigns = [id \in Cids |-> IF id = 1 THEN DonatedCampaign(s) ELSE EmptyCampaign]
    /\ withdrawalRequestCount = 0
    /\ withdrawalRequests = [id \in Rids |-> FALSE]
    /\ dbCampaigns = UpdateAmounts(InsertCreated(<<>>, queryFilter("CampaignCreated", 1, s.cursor)),
                                   queryFilter("DonationMade", 1, s.cursor))
    /\ dbDonations = InsertDonations(<<>>, queryFilter("DonationMade", 1, s.cursor))
    /\ dbTransactions = Len(queryFilter("CampaignCreated", 1, s.cursor))
                          + Len(queryFilter("DonationMade", 1, s.cursor))
    /\ dbWithdrawals = <<>>
    /\ indexer_state = s.cursor
    /\ InitRun
    /\ InitAux

ClimbStep ==
  \/ processNetworksForever
  \/ indexCampaignEvents
  \/ indexDonationEvents
  \/ indexWithdrawalEvents
  \/ WriteCursor

\* the worker is run again and again, and every await of a pass settles
SpecClimb == InitClimb /\ [][ClimbStep]_vars /\ WF_vars(ClimbStep)

\* ---- properties ----

\* C1: once every block up to the head has been indexed exactly once, with no
\* failure, replay or reconciliation, every mirrored campaign's amount_raised
\* equals the contract's totalStable of that campaign.
C1_AmountEqualsTotal ==
  (pc = "idle" /\ indexer_state = head /\ exactlyOnce) =>
    \A id \in DOMAIN dbCampaigns :
      dbCampaigns[id].amount_raised = Decimal(formatUnits(campaigns[id].totalStable))

\* C2: the persisted cursor never disappears and never decreases except in a
\* pass that jumps ahead, and a pass jumps ahead only when head - cursor is
\* above MAX_ACCEPTABLE_GAP.
C2_CursorMonotonic ==
  [][/\ indexer_state # NoRow => indexer_state' # NoRow
     /\ (indexer_state # NoRow /\ indexer_state' < indexer_state) =>
          (passes' = passes + 1 /\ jumpedAhead')
     /\ (passes' = passes + 1 /\ jumpedAhead') =>
          (indexer_state # NoRow /\ head - indexer_state > MAX_ACCEPTABLE_GAP)]_vars

C2_Witness ==
  /\ jumpedAhead
  /\ outcome = "returned"
  /\ indexer_state > cursorAtCall
  /\ cursorAtCall > lastIndexed

\* C3: a pass that finds head - cursor > 500,000 persists the cursor
\* max(1, head - 100,000) - 1 before anything is indexed, starts indexing at
\* max(1, head - 100,000), and keeps that cursor when the indexing fails.
C3_JumpAhead ==
  (passes > 0 /\ lastIndexed # NoRow /\ currentBlock - lastIndexed > MAX_ACCEPTABLE_GAP) =>
    /\ jumpedAhead
    /\ outcome # "none"
    /\ cursorAtCall = Max(1, currentBlock - RECENT_HISTORY_BLOCKS) - 1
    /\ handed[1][1] = Max(1, currentBlock - RECENT_HISTORY_BLOCKS)
    /\ outcome \in {"running", "threw"} => indexer_state = cursorAtCall
    /\ (currentBlock = 1000000 /\ lastIndexed = 100) =>
         (cursorAtCall = 899999 /\ handed[1][1] = 900000)

C3_Witness ==
  /\ jumpedAhead
  /\ currentBlock = 1000000
  /\ lastIndexed = 100
  /\ outcome = "threw"
  /\ indexer_state = 899999

\* the number of blocks of the range a pass handed to the event indexer
BlocksIndexed == IF outcome = "none" THEN 0 ELSE toBlock - fromBlock + 1

\* C4: a pass uses batch size 100 when head - cursor <= 200 and 5000 when it
\* is larger, and indexes min(batch size, head - fromBlock + 1) blocks.
C4_BatchSize ==
  /\ (passes > 0 /\ lastIndexed # NoRow) =>
       LET gap == currentBlock - lastIndexed
           expected == IF gap <= 200 THEN 100 ELSE 5000
           from == IF jumpedAhead THEN Max(1, currentBlock - RECENT_HISTORY_BLOCKS)
                   ELSE lastIndexed + 1
       IN /\ outcome # "none" => batchSize = expected
          /\ BlocksIndexed = Min(expected, currentBlock - from + 1)
  /\ (passes > 0 /\ lastIndexed = NoRow) =>
       BlocksIndexed = Min(batchSize, currentBlock - handed[1][1] + 1)

C4_Witness ==
  /\ currentBlock - lastIndexed = REALTIME_THRESHOLD
  /\ lastIndexed # NoRow
  /\ batchSize = 100
  /\ BlocksIndexed = 100
  /\ outcome = "returned"

\* C5: without jump-ahead, a pass on a chain with a cursor hands the range
\* [cursor + 1, min(head, cursor + batchSize)] to the event indexer; with
\* cursor >= head it indexes nothing and leaves the cursor as it is.
C5_NextRange ==
  (passes > 0 /\ lastIndexed # NoRow /\ ~jumpedAhead) =>
    IF lastIndexed >= currentBlock
    THEN outcome = "none" /\ indexer_state = lastIndexed
    ELSE /\ outcome # "none"
         /\ handed = <<<<lastIndexed + 1, Min(currentBlock, lastIndexed + batchSize)>>>>
         /\ (currentBlock = 1000 /\ lastIndexed = 950) => handed = <<<<951, 1000>>>>

C5_Witness ==
  /\ currentBlock = 1000
  /\ lastIndexed = 950
  /\ ~jumpedAhead
  /\ handed = <<<<951, 1000>>>>
  /\ outcome = "returned"

\* C6: on a chain with no cursor row the first pass starts indexing at
\* max(1, head - 100,000), and when it succeeds the cursor row holds the last
\* block of the indexed range.
C6_FirstTime ==
  (passes > 0 /\ lastIndexed = NoRow) =>
    /\ outcome # "none"
    /\ handed[1][1] = Max(1, currentBlock - RECENT_HISTORY_BLOCKS)
    /\ outcome = "returned" => (indexer_state # NoRow /\ indexer_state = handed[Len(handed)][2])

C6_Witness ==
  /\ lastIndexed = NoRow
  /\ outcome = "returned"
  /\ currentBlock = 200000
  /\ handed = <<<<100000, 104999>>>>
  /\ indexer_state = 104999

\* C7: a call indexNetwork(chain, from, to) over more than 10,000 blocks hands
\* the chunk indexer ascending, contiguous ranges of at most 10,000 blocks
\* each that together cover exactly [from, to].
C7_ChunksCover ==
  (outcome = "returned" /\ toBlock - fromBlock + 1 > MAX_BLOCK_RANGE) =>
    /\ handed[1][1] = fromBlock
    /\ handed[Len(handed)][2] = toBlock
    /\ \A i \in DOMAIN handed :
         /\ handed[i][1] <= handed[i][2]
         /\ handed[i][2] - handed[i][1] + 1 <= MAX_BLOCK_RANGE
    /\ \A i \in 1..(Len(handed) - 1) : handed[i + 1][1] = handed[i][2] + 1

\* C8: a call of indexNetwork writes the cursor exactly once, after every
\* chunk and all three categories of the span have committed; a call in which
\* a category throws leaves the cursor row as it found it.
C8_CursorOnce ==
  /\ cursorWrites <= 1
  /\ outcome = "returned" =>
       /\ cursorWrites = 1
       /\ handed = Chunks(fromBlock, toBlock)
       /\ Len(committed) = 3 * Len(handed)
  /\ outcome \in {"running", "threw"} =>
       /\ cursorWrites = 0
       /\ indexer_state = cursorAtCall

C8_Witness ==
  /\ outcome = "returned"
  /\ Len(handed) = 3
  /\ cursorWrites = 1
  /\ indexer_state # cursorAtCall

\* C9: within a chunk the categories commit in the order campaigns, donations,
\* withdrawals; when one throws the mirror keeps exactly what the categories
\* before it committed, and no later category runs in that pass.
C9_CategoryIsolation ==
  [][/\ DOMAIN dbCampaigns' # DOMAIN dbCampaigns =>
          (outcome = "running" /\ Len(committed) % 3 = 0)
     /\ dbDonations' # dbDonations =>
          (outcome = "running" /\ Len(committed) % 3 = 1
           /\ committed[Len(committed)] = "campaigns")
     /\ dbWithdrawals' # dbWithdrawals =>
          (outcome = "running" /\ Len(committed) % 3 = 2
           /\ committed[Len(committed)] = "donations")
     /\ (outcome = "running" /\ outcome' = "threw") => (dbVars' = dbVars /\ pc' = "idle")
     /\ (outcome = "threw" /\ passes' = passes) => dbVars' = dbVars]_vars

C9_Witness ==
  /\ outcome = "threw"
  /\ pc = "idle"
  /\ committed = <<"campaigns", "donations">>
  /\ Len(dbDonations) > 0
  /\ DOMAIN dbWithdrawals = {}
  /\ \E i \in DOMAIN log : log[i].kind = "WithdrawalRequested" /\ log[i].block <= toBlock

\* the fields of the campaigns rows that the lifecycle events decide
LifecycleFields(rows) ==
  [id \in DOMAIN rows |->
     [name |-> rows[id].name, target_amount |-> rows[id].target_amount,
      description |-> rows[id].description, social_link |-> rows[id].social_link,
      image_id |-> rows[id].image_id, creator |-> rows[id].creator,
      ended |-> rows[id].ended]]

\* C10: indexing the campaign lifecycle of a block range a second time, with
\* the chain unchanged, creates no row and changes no name, target,
\* description, socialLink, imageId, creator or ended; on rows nothing else
\* touched in between it changes nothing at all.
C10_LifecycleIdempotent ==
  [][(pc = "campaigns" /\ pc' = "donations" /\ lifecycleReplayed') =>
       /\ LifecycleFields(dbCampaigns') = LifecycleFields(dbCampaigns)
       /\ dbCampaigns = lastLifecycle.rows => dbCampaigns' = dbCampaigns]_vars

C10_Witness ==
  /\ lifecycleReplayed
  /\ pc = "donations"
  /\ dbCampaigns = lastLifecycle.rows
  /\ Len(queryFilter("CampaignCreated", lastLifecycle.range[1], lastLifecycle.range[2])) > 0
  /\ Len(queryFilter("CampaignEdited", lastLifecycle.range[1], lastLifecycle.range[2])) > 0
  /\ Len(queryFilter("CampaignEnded", lastLifecycle.range[1], lastLifecycle.range[2])) > 0

\* the sum of the DonationMade amounts of a list of events that name campaign id
RECURSIVE DonatedIn(_, _)
DonatedIn(events, id) ==
  IF events = <<>> THEN 0
  ELSE (IF Head(events).campaignId = id THEN Decimal(formatUnits(Head(events).value)) ELSE 0)
       + DonatedIn(Tail(events), id)

\* the number of donation rows that carry a transaction hash
RowsOfHash(rows, hash) == Cardinality({i \in DOMAIN rows : rows[i].tx_hash = hash})

\* C11: every application of the donation category to a range, a repeated one
\* included, adds each DonationMade amount of the range to the campaign's
\* amount_raised and inserts one more donation row for each event, so that two
\* applications add each amount twice and leave two rows per event.
C11_DonationReplayAdds ==
  [][(pc = "donations" /\ pc' = "withdrawals") =>
       LET events == queryFilter("DonationMade", chunks[1][1], chunks[1][2])
       IN /\ Len(dbDonations') = Len(dbDonations) + Len(events)
          /\ \A i \in DOMAIN events :
               RowsOfHash(dbDonations', events[i].block) =
                 RowsOfHash(dbDonations, events[i].block) + 1
          /\ \A id \in DOMAIN dbCampaigns :
               dbCampaigns'[id].amount_raised =
                 dbCampaigns[id].amount_raised + DonatedIn(events, id)]_vars

C11_Witness ==
  /\ pc = "withdrawals"
  /\ lifecycleReplayed
  /\ \E i \in DOMAIN log :
       /\ log[i].kind = "DonationMade"
       /\ InRange(log[i], chunks[1][1], chunks[1][2])
       /\ RowsOfHash(dbDonations, log[i].block) = 2
       /\ log[i].campaignId \in DOMAIN dbCampaigns
       /\ dbCampaigns[log[i].campaignId].amount_raised >=
            2 * Decimal(formatUnits(log[i].value))

\* the request ids of the WithdrawalProcessed events of the chunk being indexed
ProcessedIds ==
  {e.requestId : e \in {log[i] : i \in {j \in DOMAIN log :
      log[j].kind = "WithdrawalProcessed" /\ InRange(log[j], chunks[1][1], chunks[1][2])}}}

\* C12: a withdrawal row is never removed, a Processed row stays Processed
\* under every indexed or replayed range, a row turns Processed only in the
\* withdrawal category of a range that holds a WithdrawalProcessed event of
\* its id, and after that category every existing row named by such an event
\* is Processed.
C12_WithdrawalOneWay ==
  [][/\ \A id \in DOMAIN dbWithdrawals :
          /\ id \in DOMAIN dbWithdrawals'
          /\ dbWithdrawals[id] = "Processed" => dbWithdrawals'[id] = "Processed"
          /\ dbWithdrawals'[id] # dbWithdrawals[id] =>
               (pc = "withdrawals" /\ id \in ProcessedIds)
     /\ \A id \in DOMAIN dbWithdrawals' : dbWithdrawals'[id] \in {"Requested", "Processed"}
     /\ (pc = "withdrawals" /\ pc' # "idle") =>
          \A id \in ProcessedIds \cap DOMAIN dbWithdrawals' :
             dbWithdrawals'[id] = "Processed"]_vars

C12_Witness ==
  /\ directCalls = MaxDirectCalls + 1
  /\ outcome = "returned"
  /\ cursorAtCall >= fromBlock
  /\ \E i, j \in DOMAIN log :
       /\ log[i].kind = "WithdrawalRequested"
       /\ log[j].kind = "WithdrawalProcessed"
       /\ log[i].requestId = log[j].requestId
       /\ InRange(log[i], fromBlock, toBlock)
       /\ InRange(log[j], fromBlock, toBlock)
       /\ log[i].requestId \in DOMAIN dbWithdrawals
       /\ dbWithdrawals[log[i].requestId] = "Processed"

\* the reconciliation_log rows of a campaign
LogRowsOf(id) == SelectSeq(reconciliation_log, LAMBDA row : row.campaign_id = id)

\* the difference, to 8 decimals, between the on-chain total of a campaign and
\* the mirror's amount_raised when the pass started
ExactDiscrepancy(id) == Abs(chainAmountOf(campaigns[id]) - reconRows[id].amount_raised)

\* C13: when a reconciliation pass has returned, every mirrored campaign that
\* differed from the on-chain total by more than 0.01 at its start, and whose
\* task did not throw, holds the on-chain amount_raised and ended, and the log
\* holds exactly one row of it: the old mirror value, the on-chain value and
\* their absolute difference.
C13_ReconcileConverges ==
  reconPc = "done" =>
    \A id \in DOMAIN reconRows :
      (ExactDiscrepancy(id) > RECONCILIATION_THRESHOLD /\ id \notin reconFailed) =>
        /\ dbCampaigns[id].amount_raised = chainAmountOf(campaigns[id])
        /\ dbCampaigns[id].ended = campaigns[id].ended
        /\ LogRowsOf(id) =
             <<[campaign_id |-> id, previous_value |-> reconRows[id].amount_raised,
                new_value |-> chainAmountOf(campaigns[id]),
                discrepancy |-> ExactDiscrepancy(id)]>>

C13_Witness ==
  /\ reconPc = "done"
  /\ reconFailed = {}
  /\ ExactDiscrepancy(1) = 2 * RECONCILIATION_THRESHOLD
  /\ reconRows[1].ended # campaigns[1].ended
  /\ dbCampaigns[1].ended = campaigns[1].ended
  /\ dbCampaigns[1].amount_raised = chainAmountOf(campaigns[1])
  /\ Len(LogRowsOf(1)) = 1
  /\ Len(reconciliation_log) = 2

\* C14: when a reconciliation pass has returned, a campaign whose discrepancy
\* was at most 0.01 (exactly 0.01 included) has its row as the pass found it
\* and no log row, and the returned counts satisfy total = number of mirrored
\* campaigns = updated + matched + errors, whichever tasks threw.
C14_ReconcileThreshold ==
  reconPc = "done" =>
    /\ \A id \in DOMAIN reconRows :
         ExactDiscrepancy(id) <= RECONCILIATION_THRESHOLD =>
           /\ dbCampaigns[id].amount_raised = reconRows[id].amount_raised
           /\ dbCampaigns[id].ended = reconRows[id].ended
           /\ LogRowsOf(id) = <<>>
    /\ reconResult.total = Cardinality(DOMAIN dbCampaigns)
    /\ reconResult.total = reconResult.updated + reconResult.matched + reconResult.errors


\* C15 (as claimed): with ticks run one after another, every wallet has at most
\* one pending row at every moment, and a tick that finds a pending row for a
\* wallet neither reads that wallet's balance nor creates a row for it.
PendingOf(w) ==
  {id \in DOMAIN direct_donations :
     direct_donations[id].wallet_address = w /\ direct_donations[id].status = "pending"}

C15_PendingTickReadsNothing ==
  /\ \A w \in Wallets : Cardinality(PendingOf(w)) <= 1
  /\ foundPending # "none" => ~readBalance /\ ~createdRow

\* C15 (amended): with ticks run one after another, every wallet has at most one
\* pending row at every moment; a tick that finds a pending row for a wallet
\* creates no row for it, and reads the wallet's balance only when that row has
\* no transaction hash yet, while submitting it.
C15_PendingTickCreatesNothing ==
  /\ \A w \in Wallets : Cardinality(PendingOf(w)) <= 1
  /\ foundPending # "none" => ~createdRow
  /\ foundPending = "hashed" => ~readBalance
  /\ foundPending = "unhashed" /\ readBalance => lastSubmit.row = relayRow

\* a pending row without a hash was found, and its submission read the balance,
\* while an older row of the same wallet is closed
C15_Witness ==
  /\ foundPending = "unhashed"
  /\ readBalance
  /\ relayPc = "idle"
  /\ Len(direct_donations) >= 2
  /\ Cardinality(PendingOf(1)) = 1


\* C16 (as claimed): for a pending row with a stored hash, a poll that finds no
\* receipt adds exactly 1 to check_count; the replacement is issued by the poll
\* that follows 15 consecutive unconfirmed polls and by no earlier one; once the
\* replacement is sent, check_count is 0 and contract_tx_hash is its hash.
C16_ReplaceAfterFifteen ==
  /\ lastPoll.row # 0 /\ lastPoll.receipt = "none" /\ lastPoll.replacement = 0 =>
       lastPoll.countAfter = lastPoll.countBefore + 1
  /\ lastPoll.replacement # 0 =>
       /\ lastPoll.countBefore >= MAX_PENDING_CHECKS
       /\ lastPoll.countAfter = 0
       /\ lastPoll.hashAfter = lastPoll.replacement

\* C16 (amended): for a pending row with a stored hash, a poll that finds no
\* receipt adds exactly 1 to check_count; the poll that makes check_count 15 (the
\* 15th consecutive unconfirmed poll) attempts the replacement itself, as does
\* every later unconfirmed poll, and no poll that leaves check_count below 15
\* does; a replacement that is sent and recorded leaves check_count 0 and
\* contract_tx_hash the replacement's hash, and when no call of the poll throws
\* the replacement is sent and recorded.
C16_ReplaceAtFifteenth ==
  LET unconfirmed == lastPoll.row # 0 /\ lastPoll.receipt = "none"
      recorded == lastPoll.hashAfter # lastPoll.hashBefore
  IN
  /\ unconfirmed /\ ~recorded => lastPoll.countAfter = lastPoll.countBefore + 1
  /\ lastPoll.attempted <=> unconfirmed /\ lastPoll.countBefore + 1 >= MAX_PENDING_CHECKS
  /\ lastPoll.replacement # 0 => lastPoll.attempted
  /\ recorded =>
       /\ lastPoll.replacement # 0
       /\ lastPoll.hashAfter = lastPoll.replacement
       /\ lastPoll.countAfter = 0
       /\ sentTxs[lastPoll.replacement].replaces = lastPoll.hashBefore
  /\ lastPoll.attempted /\ lastPoll.fault = "none" => recorded
  /\ lastPoll.row # 0 =>
       /\ direct_donations[lastPoll.row].check_count = lastPoll.countAfter
       /\ direct_donations[lastPoll.row].contract_tx_hash = lastPoll.hashAfter

\* the 15th unconfirmed poll in a row has sent and recorded the replacement
C16_Witness ==
  /\ lastPoll.countBefore = MAX_PENDING_CHECKS - 1
  /\ lastPoll.replacement # 0
  /\ direct_donations[lastPoll.row].contract_tx_hash = lastPoll.replacement
  /\ direct_donations[lastPoll.row].check_count = 0
  /\ direct_donations[lastPoll.row].status = "pending"


\* C17 (as claimed): every replacement transaction is a zero-value transfer from
\* the wallet to itself with the nonce of the transaction it replaces, and its
\* max fee and priority fee are at least 1.5 times the fee estimate that was
\* used for the transaction being replaced.
Replacements == {h \in DOMAIN sentTxs : sentTxs[h].replaces # 0}

Closed(id) == direct_donations[id].status \in {"completed", "failed"}

SentFor(id) == {h \in DOMAIN sentTxs : sentTxs[h].row = id}

C18_ClosedRowsStay ==
  /\ [][\A id \in DOMAIN direct_donations :
          Closed(id) =>
            /\ direct_donations'[id] = direct_donations[id]
            /\ \A h \in DOMAIN sentTxs' : sentTxs'[h].row = id => h \in DOMAIN sentTxs]_vars
  /\ [](lastPoll.receipt = "success" => direct_donations[lastPoll.row].status = "completed")
  /\ [](lastPoll.receipt = "reverted" => direct_donations[lastPoll.row].status = "failed")

\* a row was closed as completed by a receipt, and in a later tick the relay
\* submitted the next row of the same wallet
C18_Witness ==
  \E id \in DOMAIN direct_donations :
    /\ direct_donations[id].status = "completed"
    /\ sentTxs[direct_donations[id].contract_tx_hash].receipt = "success"
    /\ \E later \in DOMAIN direct_donations :
         /\ later > id
         /\ direct_donations[later].contract_tx_hash # 0
         /\ SentFor(id) # {}


Failed(i) == retryLog[i] \in RpcErrors

C20_RetryWrapper ==
  /\ Len(retryLog) <= 3
  /\ \A i \in 1..Len(retryLog) - 1 : Failed(i)
  /\ retryPc = "returned" =>
       /\ ~Failed(Len(retryLog))
       /\ retryOutcome = retryLog[Len(retryLog)]
       /\ waits = Len(retryLog) - 1
  /\ retryPc = "threw" =>
       /\ Len(retryLog) = 3
       /\ Failed(3)
       /\ retryOutcome = retryLog[3]
       /\ waits = 2
  /\ retryPc = "calling" => waits = Len(retryLog)
  /\ waitedAfter \subseteq {i \in 1..Len(retryLog) : Failed(i) /\ i < 3}
  /\ waits = Cardinality(waitedAfter)

\* the third attempt failed after two failures with other errors, and its error
\* was thrown without a further delay
C20_Witness ==
  /\ retryPc = "threw"
  /\ retryLog = <<"e1", "e2", "e3">>
  /\ retryOutcome = "e3"
  /\ waits = 2

\* ---- properties of a pass over every network ----
\* C21: an error raised while one chain is processed (its head read, or its
\* indexing) ends that chain's work only: the step that records the error
\* leaves the loop at the next network, a pass that got as far as its loop is
\* never rejected, and a pass that resolved has taken every network.
C21_ChainErrorIsContained ==
  /\ [](passState = "rejected" => passTrace = <<>>)
  /\ [](passState = "resolved" => [i \in DOMAIN passTrace |-> passTrace[i][1]] = NetworkEntries)
  /\ [][Len(passTrace') = Len(passTrace) + 1 /\ passTrace'[Len(passTrace')][2] = "failed"
          => passState' = "loop" /\ netLoop' = Tail(netLoop)]_vars

C21_Witness ==
  /\ passState = "resolved"
  /\ passTrace[1] = <<"polygon", "failed">>
  /\ passTrace[2] = <<"ethereum", "notMain">>
  /\ Len(passTrace) = Len(NetworkEntries)
  /\ outcome = "threw"

\* C22: while a network lacks its RPC URL or contract address, no provider or
\* contract handle exists, every pass that starts is rejected, and no pass
\* reads the cursor, hands a range to the indexer or writes a row.
C22_MissingConfigRejects ==
  /\ [](missingConfig # {} =>
          /\ providers = {}
          /\ passState \in {"idle", "rejected"}
          /\ ~cursorRead
          /\ handedTo = {}
          /\ touched = {}
          /\ pc = "idle"
          /\ passes = 0)
  /\ [][missingConfig # {} => UNCHANGED <<dbVars, indexer_state>>]_vars

C22_Witness ==
  /\ missingConfig = {"soneium"}
  /\ passState = "rejected"

\* C25: a pass hands a range to indexNetwork, and writes the cursor or a mirror
\* row, only while its loop is at a network whose isMain flag is set.
C25_OnlyMainChainIndexed ==
  /\ [](\A network \in handedTo \cup touched : NETWORKS[network].isMain)
  /\ [](pc # "idle" => netLoop # <<>> /\ NETWORKS[Head(netLoop)].isMain)
  /\ [][<<dbVars, indexer_state>>' # <<dbVars, indexer_state>>
          => netLoop # <<>> /\ NETWORKS[Head(netLoop)].isMain]_vars

C25_Witness ==
  /\ passState = "resolved"
  /\ handedTo = {"polygon"}
  /\ touched = {"polygon"}
  /\ dbCampaigns # <<>>
  /\ \E i \in DOMAIN passTrace : passTrace[i] = <<"ethereum", "notMain">>

\* ---- properties of generateCampaignWallet ----
Returned(i) == walletResults[i].result.error = ""

C24_OneWalletPerCampaign ==
  /\ \A id \in RequestedIds : Len(WalletRows(id)) <= 1
  /\ \A r, q \in DOMAIN requests :
       (/\ requests[r].id = requests[q].id
        /\ requests[r].response.status = 200
        /\ requests[q].response.status = 200) =>
         requests[r].response.wallet_address = requests[q].response.wallet_address

C24_Witness ==
  /\ \A r \in DOMAIN requests : requests[r].id = "1" /\ requests[r].pc = "responded"
  /\ \A r \in {1, 2} : requests[r].wallet # NoWallet
  /\ requests[1].response.status = 500
  /\ requests[2].response.status = 200
  /\ requests[3].response.status = 200
  /\ requests[3].wallet = NoWallet

\* ---- properties of a pass that follows a partly committed one ----
\* the DonationMade events of the blocks from..to
DonationsIn(from, to) == queryFilter("DonationMade", from, to)

\* the pass that starts in this step follows one that threw after its donations
RetryStarts == passes' = passes + 1 /\ FailedAfterDonations

\* the pass that noted a partly committed pass writes its cursor in this step
RetryReturns == pc = "writeCursor" /\ pc' = "idle" /\ passNote.from # 0

\* every donation of the part that was committed before has a row from each of
\* the two passes (and one more from every failed pass before them) and was added
\* twice by the two, every other donation of the range once
AddedTwice ==
  /\ \A i \in DOMAIN DonationsIn(passNote.from, passNote.to) :
       RowsOfHash(dbDonations, DonationsIn(passNote.from, passNote.to)[i].block) >= 2
  /\ \A id \in DOMAIN passNote.base :
       dbCampaigns[id].amount_raised =
         passNote.base[id].amount_raised
           + 2 * DonatedIn(DonationsIn(passNote.from, passNote.to), id)
           + DonatedIn(DonationsIn(passNote.to + 1, toBlock), id)

\* C26 as stated: after a pass threw with its donations committed the cursor is
\* where it was, the next pass indexes the same range again, and when it
\* returns every donation of the committed part has been added twice.
C26_NextPassRepeatsRange ==
  [][/\ RetryStarts =>
          /\ indexer_state = cursorAtCall
          /\ fromBlock' = fromBlock
          /\ toBlock' >= CommittedTo
     /\ RetryReturns => AddedTwice]_vars

\* C26, amended: after a pass threw with its donations committed the cursor is
\* where it was; the next pass, unless it jumps ahead, starts at the same block
\* and covers the committed part, and when it returns every donation of the
\* committed part has been added twice.
C26_NextPassRepeatsUnlessJump ==
  [][/\ RetryStarts =>
          /\ indexer_state = cursorAtCall
          /\ ~jumpedAhead' => (fromBlock' = fromBlock /\ toBlock' >= CommittedTo
                               /\ pc' = "campaigns")
     /\ (RetryReturns /\ ~jumpedAhead) => AddedTwice]_vars

C26_Witness ==
  /\ passNote.from # 0
  /\ ~jumpedAhead
  /\ outcome = "returned"
  /\ indexer_state = toBlock
  /\ Len(DonationsIn(passNote.from, passNote.to)) > 0
  /\ Len(DonationsIn(passNote.to + 1, toBlock)) > 0
  /\ AddedTwice

\* ---- properties of passes repeated for ever ----
\* C27: after a jump-ahead or a first start, with every chain read succeeding,
\* every pass that indexes a range advances the cursor, and the cursor
\* eventually reaches the head, also when the window holds a DonationMade or
\* CampaignEnded event of a campaign created in the abandoned span.
C27_CursorReachesHead ==
  /\ [][(pc # "idle" /\ pc' = "idle") => indexer_state' > indexer_state]_vars
  /\ <>(pc = "idle" /\ indexer_state = head)

\* ---- properties of reconciliation while the indexer is behind ----
\* C28: once a reconciliation pass has healed a campaign and the indexer, with
\* no failure, has caught up to the head, the campaign's amount_raised equals
\* its on-chain total: the donations of the blocks that were above the cursor
\* when the campaign was healed are not counted a second time.
C28_HealedStaysEqual ==
  (/\ reconciliation_log # <<>>
   /\ reconPc = "done"
   /\ pc = "idle"
   /\ indexer_state = head) =>
    \A id \in DOMAIN dbCampaigns :
       dbCampaigns[id].amount_raised = chainAmountOf(campaigns[id])

\* ---- properties of two overlapping runs ----
\* both runs have started, and the second did so before the first wrote its cursor
BothReadSameCursor ==
  /\ outcome \in {"running", "returned"}
  /\ otherRun.pc # "idle"
  /\ otherRun.from = fromBlock

\* the DonationMade events that both runs have committed
CommittedByBoth ==
  IF /\ BothReadSameCursor
     /\ (outcome = "returned" \/ pc \in {"withdrawals", "writeCursor"})
     /\ otherRun.pc \in {"withdrawals", "writeCursor", "done"}
  THEN DonationsIn(fromBlock, Min(toBlock, otherRun.to))
  ELSE <<>>

\* C29: two runs that overlap can read the same cursor and index the same
\* range; every DonationMade event that both of them have committed then has two
\* donation rows and has been added to amount_raised twice.
C29_OverlapCountsTwice ==
  (passes = 1 /\ otherRun.runs = 1) =>
    /\ \A i \in DOMAIN CommittedByBoth :
         RowsOfHash(dbDonations, CommittedByBoth[i].block) = 2
    /\ \A id \in DOMAIN dbCampaigns :
         dbCampaigns[id].amount_raised >= 2 * DonatedIn(CommittedByBoth, id)

C29_Witness ==
  /\ passes = 1
  /\ otherRun.runs = 1
  /\ mined = 0
  /\ outcome = "returned"
  /\ otherRun.pc = "done"
  /\ otherRun.from = fromBlock
  /\ otherRun.to = toBlock
  /\ Len(CommittedByBoth) = 1
  /\ Len(dbDonations) = 2
  /\ dbCampaigns[1].amount_raised = 2 * chainAmountOf(campaigns[1])

\* ---- properties of two overlapping relay ticks ----
\* the donate transactions submitted for a row
DonatesFor(id) ==
  {h \in DOMAIN sentTxs : sentTxs[h].row = id /\ sentTxs[h].to = ContractAddress
                          /\ sentTxs[h].replaces = 0}

\* C30: two ticks that overlap can both find no pending row for a wallet, and
\* then two pending rows of the wallet and two donate submissions from it are
\* reached; a wallet has two pending rows only in that way (one of the rows was
\* inserted by a tick whose SELECT ran before the other row was inserted), and
\* only a row inserted by the overlapping tick is submitted afresh twice.
C30_TwoPendingOnlyByOverlap ==
  /\ \A w \in Wallets :
       Cardinality(PendingOf(w)) >= 2 =>
         \E a \in PendingOf(w) \cap otherTick.rows, b \in PendingOf(w) \ otherTick.rows :
            /\ PendingOf(w) = {a, b}
            /\ otherTick.seen < b
  /\ \A id \in DOMAIN direct_donations :
       Cardinality(DonatesFor(id)) >= 2 => id \in otherTick.rows

C30_Witness ==
  \E a, b \in PendingOf(OverlapWallet), ha, hb \in DOMAIN sentTxs :
    /\ a # b
    /\ ha \in DonatesFor(a)
    /\ hb \in DonatesFor(b)
    /\ sentTxs[ha].from = OverlapWallet
    /\ sentTxs[hb].from = OverlapWallet
    /\ sentTxs[ha].nonce # sentTxs[hb].nonce

\* ---- properties of the rows the relay closes ----
\* the donate transactions of a row that were mined with success
DonatedFor(id) ==
  {h \in SentFor(id) : sentTxs[h].to = ContractAddress /\ sentTxs[h].receipt = "success"}

\* C31: a row is completed only if a donate transaction of the row was mined
\* with success; the receipt of a zero-value replacement completes no row.
C31_CompletedOnlyByDonate ==
  \A id \in DOMAIN direct_donations :
    direct_donations[id].status = "completed" => DonatedFor(id) # {}

\* ---- properties of a donation polled for ever ----
\* some transaction at the nonce of the row's donate transaction was mined
MinedAtNonceOf(id) ==
  \E h \in DOMAIN sentTxs :
    /\ sentTxs[h].from = direct_donations[id].wallet_address
    /\ sentTxs[h].nonce = direct_donations[id].tx_nonce
    /\ sentTxs[h].receipt # "none"

\* C32: under fair polling a pending row with a submitted hash is closed
\* (completed or failed) once some transaction at its nonce has been mined.
C32_SubmittedRowCloses ==
  \A id \in {1} : (direct_donations[id].contract_tx_hash # 0 /\ MinedAtNonceOf(id)) ~> Closed(id)

\* ---- properties of the arithmetic of a submission ----
\* what the specification says the gas limit and the reserve are
SaidGasLimit(gasEstimate) == (gasEstimate * 130) \div 100

SaidReserve(gasEstimate, maxFeePerGas) ==
  LET buffered == (SaidGasLimit(gasEstimate) * maxFeePerGas * 150) \div 100
  IN IF buffered > GAS_RESERVE_MIN THEN buffered ELSE GAS_RESERVE_MIN

\* C33: every donate transaction sent has gasLimit = floor(gasEstimate * 130 / 100),
\* value = balance - max(floor(gasLimit * maxFeePerGas * 150 / 100), 0.05) > 0, the
\* nonce fetched just before, and value + gasLimit * maxFeePerGas <= balance; when
\* balance - reserve <= 0 nothing is sent and the row is marked failed.
C33_SubmissionArithmetic ==
  [][(relayPc = "submit" /\ relayPc' # "submit") =>
       LET s == lastSubmit'
           fee == Boost(feeData.maxFeePerGas, GAS_PRICE_BOOST)
           reserve == SaidReserve(s.gasEstimate, fee)
       IN
       /\ Len(sentTxs') > Len(sentTxs) =>
            LET tx == sentTxs'[Len(sentTxs')] IN
            /\ tx.to = ContractAddress
            /\ tx.maxFeePerGas = fee
            /\ tx.gasLimit = SaidGasLimit(s.gasEstimate)
            /\ tx.value = s.balance - reserve
            /\ tx.value > 0
            /\ tx.nonce = walletNonce[relayWallet]
            /\ tx.value + tx.gasLimit * tx.maxFeePerGas <= s.balance
       /\ (s.balance >= SUBMIT_FLOOR /\ s.balance - reserve <= 0
             /\ s.failed \notin {"balance", "fee", "gas"}) =>
            /\ sentTxs' = sentTxs
            /\ s.outcome = "insufficient"
            /\ direct_donations'[s.row].status = "failed"]_vars

\* a donation sent with a reserve above the minimum and a gas limit that the 30%
\* margin rounds down, and a submission given up for want of funds
C33_Witness ==
  /\ lastSubmit.row # 0
  /\ lastSubmit.outcome = "sent"
  /\ lastSubmit.gasEstimate = 4
  /\ sentTxs[lastSubmit.hash].gasLimit = 5
  /\ sentTxs[lastSubmit.hash].value = 73 - 22

\* ---- properties of the minimum balance ----
\* the balance of the wallet is below the configured minimum of 1.0 coin
BalanceBelowMinimum(w) ==
  \/ walletBalance[w] < MIN_DONATION_AMOUNT
  \/ walletBalance[w] = MIN_DONATION_AMOUNT /\ walletShort[w] > 0

\* the tick reads the balance of a wallet without a pending row in this step
ReadsBalanceOfFreeWallet ==
  /\ relayPc = "wallet"
  /\ PendingRows(relayWallet) = {}
  /\ readBalance'

\* C34: a tick that finds no pending row for a wallet creates a pending row
\* exactly when the balance is at least 1.0 coin and then goes on to submit that
\* row; below the minimum it creates no row and sends nothing.
C34_RowExactlyAtMinimum ==
  [][ReadsBalanceOfFreeWallet =>
       IF BalanceBelowMinimum(relayWallet)
       THEN direct_donations' = direct_donations /\ sentTxs' = sentTxs /\ relayPc' # "submit"
       ELSE /\ Len(direct_donations') = Len(direct_donations) + 1
            /\ direct_donations'[Len(direct_donations')].status = "pending"
            /\ relayPc' = "submit"
            /\ relayRow' = Len(direct_donations')]_vars

\* ---- properties of the tasks of a batch ----
\* the campaigns whose task has a write under way: its UPDATE is awaited, or its
\* UPDATE is done and its INSERT is awaited
Writing == {id \in DOMAIN reconTasks : reconTasks[id] \in {"update", "log"}}

\* C35: the writes of a reconciliation pass are serialized: never are the writes
\* of two campaigns of a batch under way at the same time.
C35_WritesSerialized == Cardinality(Writing) <= 1


\* the UPDATE of the pass has replaced the amount_raised the pass selected
Overwritten(id) == dbCampaigns[id].amount_raised # reconRows[id].amount_raised

\* C36: when a pass returns, every campaign whose amount_raised the pass overwrote
\* has exactly one reconciliation_log row of the pass and every other campaign has
\* none, and the pass counted as updated the campaigns that have both.
C36_LogRowWithEveryOverwrite ==
  reconPc = "done" =>
    /\ \A id \in DOMAIN reconRows :
         Len(LogRowsOf(id)) = IF Overwritten(id) THEN 1 ELSE 0
    /\ updatedCount =
         Cardinality({id \in DOMAIN reconRows : Overwritten(id) /\ Len(LogRowsOf(id)) = 1})


\* the pass found the campaign's ended flag in the mirror different from the chain's
EndedDiffers(id) == reconRows[id].ended # campaigns[id].ended

\* the task of the campaign has returned without an error
TaskReturned(id) == id \in DOMAIN reconTasks /\ reconTasks[id] \in {"updated", "match"}

\* C40: a campaign whose ended flag a pass has changed has had its amount
\* overwritten by it too, and a campaign whose ended flag differed from the
\* chain's while its amount was within 0.01 of the chain's returns as a match,
\* with the amount_raised and ended the pass found and no log row.
C40_EndedOnlyWithAmount ==
  \A id \in DOMAIN reconRows :
    /\ dbCampaigns[id].ended # reconRows[id].ended => Overwritten(id)
    /\ (TaskReturned(id) /\ EndedDiffers(id) /\ ExactDiscrepancy(id) <= RECONCILIATION_THRESHOLD) =>
         /\ reconTasks[id] = "match"
         /\ dbCampaigns[id].ended = reconRows[id].ended
         /\ ~Overwritten(id)
         /\ LogRowsOf(id) = <<>>


\* ---- properties of passes on a chain whose head stands still ----
\* C37: with the head standing still, no failure and a cursor at most 500,000
\* below the head, a pass that starts below the head indexes a range and leaves
\* the cursor higher than it found it, a pass that starts at the head writes
\* neither the cursor nor a row of the mirror, and the cursor comes to the head
\* and stays there.
C37_CursorClimbsToHead ==
  /\ [][/\ (pc = "idle" /\ indexer_state < head) => (pc' # "idle" /\ ~jumpedAhead')
        /\ (pc # "idle" /\ pc' = "idle") =>
             (indexer_state' > cursorAtCall /\ indexer_state' <= head)
        /\ (pc = "idle" /\ indexer_state = head) =>
             (pc' = "idle" /\ indexer_state' = indexer_state /\ dbVars' = dbVars
              /\ cursorWrites' = cursorWrites)]_vars
  /\ <>[](pc = "idle" /\ indexer_state = head)

C37_Witness ==
  /\ head = 500100
  /\ pc = "idle"
  /\ indexer_state = head
  /\ currentBlock = head
  /\ lastIndexed = head
  /\ outcome = "none"
  /\ Len(dbDonations) = 1


\* ---- properties of one pass after another ----
\* C38: a pass without jump-ahead that follows a pass that returned hands the
\* event indexer one range, of at least one block, that starts at the block
\* after the cursor, which is the block after the range of the pass before; it
\* ends at or below the head the pass read; and the cursor a pass writes without
\* a failure is the last block of the last range it handed over.
C38_RangesContiguous ==
  [][/\ (passes' = passes + 1 /\ pc' # "idle" /\ ~jumpedAhead' /\ indexer_state # NoRow) =>
          /\ handed' = <<<<fromBlock', toBlock'>>>>
          /\ fromBlock' = indexer_state + 1
          /\ fromBlock' <= toBlock'
          /\ toBlock' <= currentBlock'
          /\ (passes > 0 /\ outcome = "returned") => fromBlock' = toBlock + 1
     /\ (pc = "writeCursor" /\ pc' = "idle") =>
          /\ indexer_state' = handed[Len(handed)][2]
          /\ indexer_state' = toBlock
          /\ indexer_state' <= currentBlock]_vars

C38_Witness ==
  /\ passes = 2
  /\ ~jumpedAhead
  /\ lastIndexed = 900
  /\ handed = <<<<901, 1000>>>>
  /\ outcome = "returned"
  /\ indexer_state = 1000


\* ---- properties of a submission below the floor ----
\* the pending rows of the wallet that hold no transaction hash
UnhashedRows(w) == {id \in PendingRows(w) : direct_donations[id].contract_tx_hash = 0}

\* C39: a submission that reads a balance below 0.1 coin sends nothing and
\* leaves the table as it is, its row pending without a hash; and a tick that
\* comes to a wallet with such a row hands that row to the submission again and
\* inserts no row.
C39_BelowFloorStaysPending ==
  [][/\ (/\ relayPc = "submit"
         /\ relayPc' # "submit"
         /\ walletBalance[relayWallet] < SUBMIT_FLOOR
         /\ lastSubmit'.failed # "balance") =>
          /\ sentTxs' = sentTxs
          /\ direct_donations' = direct_donations
          /\ relayRow \in UnhashedRows(relayWallet)
          /\ lastSubmit'.outcome = "skipped"
     /\ (/\ relayPc = "wallet"
         /\ relayPc' # "wallet"
         /\ UnhashedRows(relayWallet) # {}) =>
          /\ relayPc' = "submit"
          /\ relayRow' \in UnhashedRows(relayWallet)
          /\ direct_donations' = direct_donations]_vars

C39_Witness ==
  /\ relayPc = "submit"
  /\ foundPending = "unhashed"
  /\ lastSubmit.outcome = "skipped"
  /\ lastSubmit.row = relayRow
  /\ walletBalance[relayWallet] < SUBMIT_FLOOR
  /\ UnhashedRows(relayWallet) = {relayRow}

====
